---- MODULE Spec2Model ----
(***************************************************************************)
(* Mochimo WOTS+ (w = 16, n = 32, len = 67) with the wallet and address    *)
(* framing built on it.                                                    *)
(*                                                                         *)
(* Byte strings are tagged values, compared by their bytes:                *)
(*   <<"raw", s>>            the bytes of the sequence s (each in 0..255)  *)
(*   <<"pad32", k>>          31 zero bytes followed by the byte k          *)
(*   <<"slice", b, lo, hi>>  bytes lo..hi-1 of the digest b                *)
(*   <<"rev4", b>>           b with every aligned 4-byte chunk reversed    *)
(*   <<"cat", a, b>>         the bytes of a followed by the bytes of b     *)
(*   <<"buf", h, x, y, z>>   a 20-byte string and three 4-byte strings     *)
(*   <<"xor", a, b>>         bytewise a XOR b                              *)
(*   <<"rand", k, n>>        the n bytes of the k-th random fill           *)
(*   <<"flip", b, k>>        b with its bit k inverted                     *)
(*   <<"sha256", parts>>     SHA-256 of the concatenation of parts         *)
(*   <<"ripemd160", parts>>, <<"sha3-512", parts>> likewise                *)
(* The hash functions come from @noble/hashes; they are taken as           *)
(* collision free, so a digest is the term naming its input.               *)
(***************************************************************************)
EXTENDS Integers, Sequences, FiniteSets, TLC

VARIABLES
    calc,    \* the arrays of one WOTS run: message, seeds, pk, signature
    wallet,  \* the wallet object, Null before WOTSWallet.create returns one
    last,    \* the last call: [op, in, rnd, out, err]
    before,  \* the call before it, when the last call repeats it
    mem      \* the Uint8Arrays by reference and the object that holds some of them

vars == <<calc, wallet, last, before, mem>>

-----------------------------------------------------------------------------
(* Program constants *)

WOTSW == 16
WOTSLOGW == 4
PARAMSN == 32
WOTSLEN1 == 64
WOTSLEN2 == 3
WOTSLEN == 67
WOTSSIGBYTES == 2144
XMSS_HASH_PADDING_F == 0
XMSS_HASH_PADDING_PRF == 3
TAG_LENGTH == 12

\* JavaScript's undefined, read from an index past the end of an array
Undefined == -1

-----------------------------------------------------------------------------
(* Byte strings *)

\* the array with elements f[1], ..., f[n], as a sequence value
ArrayOf(f) == f \o <<>>

\* the element of a one-element set.  A value a definition reads more than
\* once is computed once by binding it as the element of a one-element set:
\* The({F(x) : x \in {e}}) is F(e).
The(S) == CHOOSE x \in S : TRUE

Zeros(n) == ArrayOf([i \in 1..n |-> 0])

Fill(n, b) == ArrayOf([i \in 1..n |-> b])

Pad32(k) == <<"pad32", k>>

\* new Uint8Array(s): 32-byte strings of 31 zeros and a last byte have one form
Raw(s) ==
    IF Len(s) = 32 /\ SubSeq(s, 1, 31) = Zeros(31) THEN Pad32(s[32])
    ELSE <<"raw", ArrayOf(s)>>

\* the bytes of a "raw" or "pad32" string
BytesOf(b) ==
    IF b[1] = "pad32" THEN Zeros(31) \o <<b[2]>> ELSE b[2]

IsConcrete(b) == b[1] \in {"raw", "pad32"}

\* the length in bytes of a byte string
RECURSIVE ByteLen(_)
ByteLen(b) ==
    CASE b[1] = "sha256" -> 32
      [] b[1] = "raw" -> Len(b[2])
      [] b[1] = "pad32" -> 32
      [] b[1] = "slice" -> b[4] - b[3]
      [] b[1] = "rev4" -> ByteLen(b[2])
      [] b[1] = "xor" -> ByteLen(b[2])
      [] b[1] = "cat" -> ByteLen(b[2]) + ByteLen(b[3])
      [] b[1] = "buf" -> 32
      [] b[1] = "rand" -> b[3]
      [] b[1] = "flip" -> ByteLen(b[2])
      [] b[1] = "sha3-512" -> 64
      [] b[1] = "ripemd160" -> 20
      [] OTHER -> 0

Min(x, y) == IF x < y THEN x ELSE y

\* bytes l..h-1 of b, 0 <= l <= h <= length
RECURSIVE SliceIn(_, _, _)
SliceIn(b, l, h) ==
    IF l = 0 /\ h = ByteLen(b) THEN b
    ELSE IF IsConcrete(b) THEN <<"raw", SubSeq(BytesOf(b), l + 1, h)>>
    ELSE IF b[1] = "slice" THEN <<"slice", b[2], b[3] + l, b[3] + h>>
    ELSE IF b[1] = "cat" THEN
        IF h <= ByteLen(b[2]) THEN SliceIn(b[2], l, h)
        ELSE IF l >= ByteLen(b[2]) THEN SliceIn(b[3], l - ByteLen(b[2]), h - ByteLen(b[2]))
        ELSE <<"cat", SliceIn(b[2], l, ByteLen(b[2])), SliceIn(b[3], 0, h - ByteLen(b[2]))>>
    ELSE <<"slice", b, l, h>>

\* Uint8Array.subarray(lo, hi) / slice(lo, hi), the bounds clamped to the length
Slice(b, lo, hi) == SliceIn(b, Min(lo, Min(hi, ByteLen(b))), Min(hi, ByteLen(b)))

\* the bytes of a followed by the bytes of b, in one form per byte string
Cat(a, b) ==
    IF ByteLen(a) = 0 THEN b
    ELSE IF ByteLen(b) = 0 THEN a
    ELSE IF IsConcrete(a) /\ IsConcrete(b) THEN Raw(BytesOf(a) \o BytesOf(b))
    ELSE IF a[1] = "slice" /\ b[1] = "slice" /\ a[4] = b[3] /\ a[2] = b[2]
         THEN Slice(a[2], a[3], b[4])
    ELSE <<"cat", a, b>>

Xor(a, b) == <<"xor", a, b>>

-----------------------------------------------------------------------------
(* MochimoHasher *)

\* new MochimoHasher(algorithm); update(part) for each part; digest()
hashWith(algorithm, parts) == <<algorithm, parts>>

\* MochimoHasher.hash(data)
hash(data) == hashWith("sha256", <<data>>)

-----------------------------------------------------------------------------
(* ByteBuffer over the 32-byte hash address: bytes 0..19 and the three     *)
(* 4-byte fields at 20, 24 and 28 that the setters position to.            *)

LITTLE_ENDIAN == "LITTLE_ENDIAN"
BIG_ENDIAN == "BIG_ENDIAN"

\* ByteBuffer.wrap(array): a copy of the array, big-endian by default
wrap(array) ==
    [head |-> Slice(array, 0, 20),
     w |-> <<Slice(array, 20, 24), Slice(array, 24, 28), Slice(array, 28, 32)>>,
     byteOrder |-> BIG_ENDIAN]

order(bb, o) == [bb EXCEPT !.byteOrder = o]

\* the four bytes putInt(value) writes
IntBytes(value, o) ==
    IF o = BIG_ENDIAN
    THEN <<(value \div 16777216) % 256, (value \div 65536) % 256, (value \div 256) % 256,
           value % 256>>
    ELSE <<value % 256, (value \div 256) % 256, (value \div 65536) % 256,
           (value \div 16777216) % 256>>

\* position(20 + 4 * (k - 1)); putInt(value)
putIntAt(bb, k, value) ==
    [bb EXCEPT !.w[k] = <<"raw", IntBytes(value, bb.byteOrder)>>]

\* array(): the 32 bytes of the buffer, <<"buf", bytes 0..19, the three fields>>
array(bb) == <<"buf", bb.head, bb.w[1], bb.w[2], bb.w[3]>>

-----------------------------------------------------------------------------
(* WOTSHash *)

setChainAddr(addr, chain) == putIntAt(addr, 1, chain)

setHashAddr(addr, h) == putIntAt(addr, 2, h)

\* setKeyAndMask writing at offset 24, the hash field
setKeyAndMask_at24(addr, keyAndMask) == putIntAt(addr, 2, keyAndMask)

setKeyAndMask(addr, keyAndMask) == putIntAt(addr, 3, keyAndMask)

ZeroHead == <<"raw", Zeros(20)>>
ZeroWord == <<"raw", <<0, 0, 0, 0>>>>

\* addrToBytes: every 4-byte chunk of the buffer byte-reversed.  A buffer of 28
\* zero bytes and a last field <<k, 0, 0, 0>> reverses to 31 zeros and k.
addrToBytes(addr) ==
    IF /\ addr.head = ZeroHead /\ addr.w[1] = ZeroWord /\ addr.w[2] = ZeroWord
       /\ addr.w[3][1] = "raw" /\ SubSeq(addr.w[3][2], 2, 4) = <<0, 0, 0>>
    THEN Pad32(addr.w[3][2][1])
    ELSE <<"rev4", array(addr)>>

\* buff.set(key, 32) then buff.set(input, 64): bytes 32..63 of the 96-byte buffer
KeyPart(key) ==
    IF ByteLen(key) = 32 THEN key
    ELSE IF ByteLen(key) > 32 THEN Slice(key, 0, 32)
    ELSE Cat(key, Slice(Pad32(0), ByteLen(key), 32))

\* the 32 bytes prf writes at out[offset..offset+32)
prf(input, key) ==
    hashWith("sha256", <<Pad32(XMSS_HASH_PADDING_PRF), KeyPart(key), input>>)

\* thashF: the 32 bytes written to out, and the address buffer it leaves
thashF(input, pubSeed, addr) ==
    [out |-> hashWith("sha256",
                      <<Pad32(XMSS_HASH_PADDING_F),
                        prf(addrToBytes(setKeyAndMask(addr, 0)), pubSeed),
                        Xor(input,
                            prf(addrToBytes(setKeyAndMask(setKeyAndMask(addr, 0), 1)),
                                pubSeed))>>),
     addr |-> setKeyAndMask(setKeyAndMask(addr, 0), 1)]

-----------------------------------------------------------------------------
(* ByteUtils *)

\* ByteUtils.toBytes(value, length): big-endian, value below 2^31
toBytes(value, length) ==
    Raw([k \in 1..length |->
            IF length - k >= 4 THEN 0
            ELSE (value \div (256 ^ (length - k))) % 256])

\* ByteUtils.areEqual / compareBytes on arrays of 32-byte chunks
areEqual(a, b) ==
    \E x \in {a}, y \in {b} : Len(x) = Len(y) /\ \A i \in 1..Len(x) : x[i] = y[i]

-----------------------------------------------------------------------------
(* WOTS.  A pk or signature array is its sequence of 32-byte chunks; a     *)
(* short array ends with a shorter chunk or has fewer chunks.              *)

\* input.subarray(32 * i, 32 * i + 32), i counted from 0
Chunk(arr, i) == IF i + 1 <= Len(arr) THEN arr[i + 1] ELSE <<"raw", <<>>>>

\* out.set(piece, 32 * i) seen on the 32 bytes of out it lands in
Set32(prev, piece) == Cat(piece, Slice(prev, ByteLen(piece), 32))

\* the chain loop over st = [i, out, addr]: thashF in place for
\* i = start .. min(start + steps, 16) - 1
\* Loops run as the code runs them, body after body in index order.  st is
\* the record of what a loop reads and writes, st.i the loop variable.  A
\* driver runs the rounds st.i .. end-1 as four consecutive quarters, the
\* state after each quarter bound before the next starts.
\* a round of gen_chain that sets the hash address to i + 1
gen_chain_step_next(st) ==
    The({[st EXCEPT !.i = st.i + 1, !.out = r.out, !.addr = r.addr] :
            r \in {thashF(st.out, st.pub_seed, setHashAddr(st.addr, st.i + 1))}})

\* one round of the loop of gen_chain over st = [i, out, addr, pub_seed]
gen_chain_step(st) ==
    The({[st EXCEPT !.i = st.i + 1, !.out = r.out, !.addr = r.addr] :
            r \in {thashF(st.out, st.pub_seed, setHashAddr(st.addr, st.i))}})

RECURSIVE gen_chain_loop(_, _)
gen_chain_loop(st, end) ==
    IF st.i >= end THEN st
    ELSE IF st.i + 1 = end THEN gen_chain_step(st)
    ELSE The({gen_chain_loop(c, end) :
                 c \in {gen_chain_loop(b, Min(st.i + 3 * ((end - st.i + 3) \div 4), end)) :
                 b \in {gen_chain_loop(a, Min(st.i + 2 * ((end - st.i + 3) \div 4), end)) :
                 a \in {gen_chain_loop(st, st.i + (end - st.i + 3) \div 4)}}}})

\* gen_chain running thashF up to position 15 whatever steps is
gen_chain_to16(prev, input, start, steps, pub_seed, addr) ==
    The({[out |-> r.out, addr |-> r.addr] :
            r \in {gen_chain_loop(st, 16) :
            st \in {[i |-> start, out |-> Set32(prev, input), addr |-> addr,
                     pub_seed |-> pub_seed]}}})

\* gen_chain: prev is the 32 bytes of out before the call; the loop runs
\* while i < start + steps && i < 16
gen_chain(prev, input, start, steps, pub_seed, addr) ==
    The({[out |-> r.out, addr |-> r.addr] :
            r \in {gen_chain_loop(st, Min(start + steps, 16)) :
            st \in {[i |-> start, out |-> Set32(prev, input), addr |-> addr,
                     pub_seed |-> pub_seed]}}})

expand_seed(inseed) ==
    ArrayOf([i \in 1..WOTSLEN |-> prf(toBytes(i - 1, 32), inseed)])

\* msg[inIdx]
MsgByte(msg, inIdx) ==
    IF inIdx < Len(BytesOf(msg)) THEN BytesOf(msg)[inIdx + 1] ELSE Undefined

\* (total >> bits) & 0xF, undefined converting to 0
Nibble(total, bits) == IF total = Undefined THEN 0 ELSE (total \div (2 ^ bits)) % 16

\* one round of the loop of base_w_ over
\* st = [i, destination, inIdx, total, bits, msg, offset]
\* bits -= 4; destination[out++] = (total >> bits) & 15
base_w_emit(st, bits) ==
    [st EXCEPT !.i = st.i + 1,
               !.destination[st.i + st.offset + 1] = Nibble(st.total, bits),
               !.bits = bits]

\* if (bits == 0) { total = msg[in++]; bits += 8 }
base_w_fetch(st) ==
    IF st.bits = 0
    THEN [st EXCEPT !.total = MsgByte(st.msg, st.inIdx), !.inIdx = st.inIdx + 1,
                    !.bits = st.bits + 8]
    ELSE st

base_w_step(st) == The({base_w_emit(f, f.bits - 4) : f \in {base_w_fetch(st)}})

RECURSIVE base_w_loop(_, _)
base_w_loop(st, length) ==
    IF st.i >= length THEN st
    ELSE IF st.i + 1 = length THEN base_w_step(st)
    ELSE The({base_w_loop(c, length) :
                 c \in {base_w_loop(b, Min(st.i + 3 * ((length - st.i + 3) \div 4), length)) :
                 b \in {base_w_loop(a, Min(st.i + 2 * ((length - st.i + 3) \div 4), length)) :
                 a \in {base_w_loop(st, st.i + (length - st.i + 3) \div 4)}}}})

base_w_(msg, destination, offset, length) ==
    The({base_w_loop(st, length).destination :
            st \in {[i |-> 0, destination |-> destination, inIdx |-> 0, total |-> 0,
                     bits |-> 0, msg |-> msg, offset |-> offset]}})

\* f[lo] + ... + f[hi]
RECURSIVE SumRange(_, _, _)
SumRange(f, lo, hi) ==
    IF lo > hi THEN 0
    ELSE IF lo = hi THEN f[lo]
    ELSE SumRange(f, lo, (lo + hi) \div 2) + SumRange(f, (lo + hi) \div 2 + 1, hi)

\* the two checksum bytes with the low byte first
csumBytes_lowFirst(csum) == <<"raw", <<csum % 256, (csum \div 256) % 256>>>>

\* the two checksum bytes of csum << 4
csumBytes(csum) == <<"raw", <<(csum \div 256) % 256, csum % 256>>>>

\* the checksum as the sum of the digits themselves
wotsChecksum_plainSum(msgBaseW, sumOffset) ==
    The({base_w_(csumBytes(csum), msgBaseW, sumOffset, Len(msgBaseW) - sumOffset) :
            csum \in {SumRange(d, 1, 64) * 16 :
                         d \in {ArrayOf([i \in 1..64 |-> msgBaseW[i]])}}})

wotsChecksum(msgBaseW, sumOffset) ==
    The({base_w_(csumBytes(csum), msgBaseW, sumOffset, Len(msgBaseW) - sumOffset) :
            csum \in {SumRange(d, 1, 64) * 16 :
                         d \in {ArrayOf([i \in 1..64 |-> 15 - msgBaseW[i]])}}})

\* new Array(WOTSLEN)
EmptyLengths == ArrayOf([i \in 1..WOTSLEN |-> Undefined])

chain_lengths(msg, destination) ==
    The({wotsChecksum(w, 64) : w \in {base_w_(msg, destination, 0, 64)}})

\* one round of the loop of pkgen and sign over
\* st = [i, arr, addr, steps, pub_seed]: chain i of arr is walked steps[i]
\* steps from position 0 in place
seed_chain_step(st) ==
    The({[st EXCEPT !.i = st.i + 1, !.arr[st.i + 1] = r.out, !.addr = r.addr] :
            r \in {gen_chain(st.arr[st.i + 1], st.arr[st.i + 1], 0, st.steps[st.i + 1],
                              st.pub_seed, setChainAddr(st.addr, st.i))}})

RECURSIVE chains_from_seed(_, _)
chains_from_seed(st, end) ==
    IF st.i >= end THEN st
    ELSE IF st.i + 1 = end THEN seed_chain_step(st)
    ELSE The({chains_from_seed(c, end) :
                 c \in {chains_from_seed(b, Min(st.i + 3 * ((end - st.i + 3) \div 4), end)) :
                 b \in {chains_from_seed(a, Min(st.i + 2 * ((end - st.i + 3) \div 4), end)) :
                 a \in {chains_from_seed(st, st.i + (end - st.i + 3) \div 4)}}}})

\* wots_pkgen: the pk array it fills
wots_pkgen(seed, pub_seed, offset, addr) ==
    The({chains_from_seed(st, WOTSLEN).arr :
            st \in {[i |-> 0, arr |-> expand_seed(seed),
                     addr |-> order(wrap(addr), LITTLE_ENDIAN),
                     steps |-> ArrayOf([i \in 1..WOTSLEN |-> WOTSW - 1]),
                     pub_seed |-> Slice(pub_seed, offset, ByteLen(pub_seed))]}})

\* wots_sign: the sig array it fills
wots_sign(msg, seed, pub_seed, offset, addr) ==
    The({chains_from_seed(st, WOTSLEN).arr :
            st \in {[i |-> 0, arr |-> expand_seed(seed),
                     addr |-> order(wrap(addr), LITTLE_ENDIAN),
                     steps |-> chain_lengths(msg, EmptyLengths),
                     pub_seed |-> Slice(pub_seed, offset, ByteLen(pub_seed))]}})

\* sig_chain_step walking every chain from position 0
sig_chain_step_from0(st) ==
    The({[st EXCEPT !.i = st.i + 1, !.arr[st.i + 1] = r.out, !.addr = r.addr] :
            r \in {gen_chain(st.arr[st.i + 1], Chunk(st.signature, st.i), 0,
                              WOTSW - 1 - st.lengths[st.i + 1], st.pub_seed,
                              setChainAddr(st.addr, st.i))}})

\* one round of the loop of pk_from_sig over
\* st = [i, arr, addr, signature, lengths, pub_seed]: chain i starts from
\* chunk i of the signature at position lengths[i] and is walked
\* 15 - lengths[i] steps
sig_chain_step(st) ==
    The({[st EXCEPT !.i = st.i + 1, !.arr[st.i + 1] = r.out, !.addr = r.addr] :
            r \in {gen_chain(st.arr[st.i + 1], Chunk(st.signature, st.i),
                              st.lengths[st.i + 1], WOTSW - 1 - st.lengths[st.i + 1],
                              st.pub_seed, setChainAddr(st.addr, st.i))}})

RECURSIVE chains_from_sig(_, _)
chains_from_sig(st, end) ==
    IF st.i >= end THEN st
    ELSE IF st.i + 1 = end THEN sig_chain_step(st)
    ELSE The({chains_from_sig(c, end) :
                 c \in {chains_from_sig(b, Min(st.i + 3 * ((end - st.i + 3) \div 4), end)) :
                 b \in {chains_from_sig(a, Min(st.i + 2 * ((end - st.i + 3) \div 4), end)) :
                 a \in {chains_from_sig(st, st.i + (end - st.i + 3) \div 4)}}}})

\* wots_pk_from_sig: the pk array it returns
wots_pk_from_sig(signature, msg, pub_seed, addr) ==
    The({chains_from_sig(st, WOTSLEN).arr :
            st \in {[i |-> 0, arr |-> ArrayOf([i \in 1..WOTSLEN |-> Pad32(0)]),
                     addr |-> order(wrap(addr), LITTLE_ENDIAN),
                     signature |-> signature,
                     lengths |-> chain_lengths(msg, EmptyLengths),
                     pub_seed |-> pub_seed]}})

-----------------------------------------------------------------------------
(* Tag *)

Null == <<"null">>

\* the length in bytes of an array of chunks
ArrLen(arr) ==
    The({SumRange(n, 1, Len(n)) : n \in {ArrayOf([i \in 1..Len(arr) |-> ByteLen(arr[i])])}})

\* Tag.isValid without the test for the 0x42 prefix
Tag_isValid_zero_only(tag) ==
    IF tag = Null \/ ByteLen(tag) # TAG_LENGTH THEN FALSE
    ELSE BytesOf(tag)[1] # 0

\* Tag.isValid
Tag_isValid(tag) ==
    IF tag = Null \/ ByteLen(tag) # TAG_LENGTH THEN FALSE
    ELSE BytesOf(tag)[1] # 66 /\ BytesOf(tag)[1] # 0

\* Tag.tag: [err, val]; the copy of the address with its last 12 bytes the tag
Tag_tag(address, tag) ==
    IF ~Tag_isValid(tag) THEN [err |-> "Invalid tag", val |-> Null]
    ELSE IF ArrLen(address) # 2208 THEN [err |-> "Invalid address length", val |-> Null]
    ELSE IF ByteLen(tag) # 12 THEN [err |-> "Invalid tag length", val |-> Null]
    ELSE [err |-> "",
          val |-> The({[tagged EXCEPT ![Len(tagged)] =
                           Cat(Slice(@, 0, ByteLen(@) - ByteLen(tag)), tag)] :
                       tagged \in {address}})]

\* Tag.getTag
Tag_getTag(address) ==
    IF ArrLen(address) # 2208 THEN [err |-> "Invalid address length", val |-> Null]
    ELSE [err |-> "",
          val |-> Slice(address[Len(address)],
                        ByteLen(address[Len(address)]) - TAG_LENGTH,
                        ByteLen(address[Len(address)]))]

-----------------------------------------------------------------------------
(* Components generators *)

\* Buffer.from(bytes).toString('ascii') then Buffer.from(str, 'ascii'):
\* decoding as ascii clears the high bit of every byte
AsciiRoundTrip(bytes) == ArrayOf([i \in 1..Len(bytes) |-> bytes[i] % 128])

Lit_seed == <<115, 101, 101, 100>>
Lit_publ == <<112, 117, 98, 108>>
Lit_addr == <<97, 100, 100, 114>>

\* WOTSWallet.componentsGenerator
seeds_from_ascii(seed_ascii) ==
    [private_seed |-> hash(Raw(seed_ascii \o Lit_seed)),
     public_seed |-> hash(Raw(seed_ascii \o Lit_publ)),
     addr_seed |-> hash(Raw(seed_ascii \o Lit_addr))]

componentsGenerator(wotsSeed) == seeds_from_ascii(AsciiRoundTrip(BytesOf(wotsSeed)))

\* the derivation the protocol tests use: the secret itself, its hash, the
\* hash of that
chainedGenerator(wotsSeed) ==
    [private_seed |-> wotsSeed,
     public_seed |-> hash(wotsSeed),
     addr_seed |-> hash(hash(wotsSeed))]

applyGenerator(g, secret) ==
    IF g = "default" THEN componentsGenerator(secret) ELSE chainedGenerator(secret)

-----------------------------------------------------------------------------
(* WOTS address generation and validation *)

\* WOTS.splitAddress with tag = null: [err, pk, pubSeed, rnd2]
splitAddress(address) ==
    IF ArrLen(address) # 2208
    THEN [err |-> "Invalid address length", pk |-> <<>>, pubSeed |-> Null, rnd2 |-> Null]
    ELSE [err |-> "", pk |-> SubSeq(address, 1, WOTSLEN),
          pubSeed |-> address[WOTSLEN + 1], rnd2 |-> address[WOTSLEN + 2]]

\* WOTS.isValidWithComponents with msg the 32 bytes the random generator fills
isValidWithComponents(secret, pk, pubSeed, rnd2, msg) ==
    IF ByteLen(secret) # 32 THEN [err |-> "Invalid secret length", val |-> FALSE]
    ELSE IF ArrLen(pk) # 2144 THEN [err |-> "Invalid pk length", val |-> FALSE]
    ELSE IF ByteLen(pubSeed) # 32 THEN [err |-> "Invalid pubSeed length", val |-> FALSE]
    ELSE IF ByteLen(rnd2) # 32 THEN [err |-> "Invalid rnd2 length", val |-> FALSE]
    ELSE [err |-> "",
          val |-> areEqual(wots_pk_from_sig(wots_sign(msg, secret, pubSeed, 0, rnd2),
                                            msg, pubSeed, rnd2),
                           pk)]

\* WOTS.isValid
isValid(secret, address, msg) ==
    The({IF s.err # "" THEN [err |-> s.err, val |-> FALSE]
         ELSE isValidWithComponents(secret, s.pk, s.pubSeed, s.rnd2, msg) :
            s \in {splitAddress(address)}})

\* the ten validation rounds: draws[i] is the message of round i; a message
\* drawn twice validates as it did the first time
SELF_CHECK_ROUNDS == 10

\* the validation rounds with a fresh message drawn between signing and
\* verifying
selfCheck_redrawn(secret, address, draws) ==
    \A p \in {<<draws[i], draws[i + 1]>> : i \in 1..(SELF_CHECK_ROUNDS - 1)} :
        areEqual(wots_pk_from_sig(wots_sign(p[1], secret, address[WOTSLEN + 1], 0,
                                            address[WOTSLEN + 2]),
                                  p[2], address[WOTSLEN + 1], address[WOTSLEN + 2]),
                 SubSeq(address, 1, WOTSLEN))

selfCheck(secret, address, draws) ==
    \A m \in {draws[i] : i \in 1..SELF_CHECK_ROUNDS} : isValid(secret, address, m).val

\* the ready address with the tag left out
readyAddress_untagged(tag, sourceAddress) == [err |-> "", val |-> sourceAddress]

\* const readyAddress = tag ? Tag.tag(sourceAddress, tag) : sourceAddress
readyAddress(tag, sourceAddress) ==
    IF tag # Null THEN Tag_tag(sourceAddress, tag) ELSE [err |-> "", val |-> sourceAddress]

\* the validation loop on the ready address, then the return
validated(secret, ready, draws) ==
    The({IF r.err # "" THEN r
         ELSE IF ~selfCheck(secret, r.val, draws) THEN [err |-> "Invalid WOTS", val |-> Null]
         ELSE r :
            r \in {ready}})

\* WOTS.generateAddress: [err, val]
generateAddress(tag, secret, g, draws) ==
    IF g = "none" THEN [err |-> "Invalid componentsGenerator", val |-> Null]
    ELSE IF ByteLen(secret) # 32 THEN [err |-> "Invalid secret length", val |-> Null]
    ELSE IF tag # Null /\ ByteLen(tag) # 12 THEN [err |-> "Invalid tag", val |-> Null]
    ELSE The({validated(components.private_seed,
                        readyAddress(tag,
                            wots_pkgen(components.private_seed, components.public_seed, 0,
                                       components.addr_seed)
                            \o <<components.public_seed, components.addr_seed>>),
                        draws) :
                 components \in {applyGenerator(g, secret)}})

\* the bytes a random generator writes into an n-byte array on its k-th use
Rand(k, n) == <<"rand", k, n>>

\* WOTS.generateRandomAddress_: [err, val]; fill is the 2208 random bytes
generateRandomAddress_(tag, secret, fill, draws) ==
    IF ByteLen(secret) # 32 THEN [err |-> "Invalid secret length", val |-> Null]
    ELSE IF tag # Null /\ ByteLen(tag) # 12 THEN [err |-> "Invalid tag", val |-> Null]
    ELSE validated(secret,
                   readyAddress(tag,
                       wots_pkgen(secret, fill, WOTSSIGBYTES, Slice(fill, 2176, 2208))
                       \o <<Slice(fill, WOTSSIGBYTES, 2176), Slice(fill, 2176, 2208)>>),
                   draws)

\* WOTS.generateRandomAddress
generateRandomAddress(tag, secret, fill, draws) ==
    generateRandomAddress_(tag, secret, fill, draws)

-----------------------------------------------------------------------------
(* WotsAddress: [address, amount], address the 40 bytes tag then hash *)

TXADDRLEN == 40
ADDR_TAG_LEN == 20
WOTS_PK_LEN == 2144
TXAMOUNT == 8

\* target.set(piece, at) on a byte string
SetAt(target, piece, at) ==
    Cat(Cat(Slice(target, 0, at), piece),
        Slice(target, at + ByteLen(piece), ByteLen(target)))

\* the bytes of an array of chunks as one byte string
RECURSIVE FlatTo(_, _)
FlatTo(arr, n) == IF n = 0 THEN <<"raw", <<>>>> ELSE Cat(FlatTo(arr, n - 1), arr[n])
Flat(arr) == FlatTo(arr, Len(arr))

\* new WotsAddress()
NewWotsAddress == [address |-> <<"raw", Zeros(TXADDRLEN)>>, amount |-> <<"raw", Zeros(TXAMOUNT)>>]

WotsAddress_setTag(wa, tag) ==
    [wa EXCEPT !.address = SetAt(@, Slice(tag, 0, ADDR_TAG_LEN), 0)]

WotsAddress_setAddress(wa, address) ==
    [wa EXCEPT !.address = SetAt(@, Slice(address, 0, TXADDRLEN - ADDR_TAG_LEN), ADDR_TAG_LEN)]

WotsAddress_getTag(wa) == Slice(wa.address, 0, ADDR_TAG_LEN)

WotsAddress_getAddress(wa) == Slice(wa.address, ADDR_TAG_LEN, TXADDRLEN)

\* WotsAddress.bytes(): address then the 8 amount bytes
WotsAddress_bytes(wa) == Cat(wa.address, wa.amount)

\* WotsAddress.addrHashGenerate on an array of chunks
addrHashGenerate(input) == hashWith("ripemd160", <<hashWith("sha3-512", input)>>)

\* addrFromImplicit without the second addr.set
addrFromImplicit_firstHalf(tag) ==
    SetAt(<<"raw", Zeros(TXADDRLEN)>>, Slice(tag, 0, ADDR_TAG_LEN), 0)

\* WotsAddress.addrFromImplicit
addrFromImplicit(tag) ==
    SetAt(SetAt(<<"raw", Zeros(TXADDRLEN)>>, Slice(tag, 0, ADDR_TAG_LEN), 0),
          Slice(tag, 0, TXADDRLEN - ADDR_TAG_LEN), ADDR_TAG_LEN)

\* WotsAddress.addrFromWots on an array of chunks
addrFromWots(wots) ==
    IF ArrLen(wots) # WOTS_PK_LEN THEN Null
    ELSE addrFromImplicit(addrHashGenerate(wots))

\* WotsAddress.wotsAddressFromBytes on an array of chunks
\* wots.setTag(src.slice(0, 20)); wots.setAddress(src.slice(20, 40))
WotsAddress_from(src) ==
    WotsAddress_setAddress(
        WotsAddress_setTag(NewWotsAddress, Slice(src, 0, ADDR_TAG_LEN)),
        Slice(src, ADDR_TAG_LEN, TXADDRLEN))

wotsAddressFromBytes(bytes) ==
    The({IF n = WOTS_PK_LEN THEN WotsAddress_from(addrFromWots(bytes))
         ELSE IF n = TXADDRLEN \/ n = TXADDRLEN + TXAMOUNT
         THEN [WotsAddress_from(Flat(bytes)) EXCEPT
                  !.amount = IF n = TXADDRLEN THEN @
                             ELSE Slice(Flat(bytes), TXADDRLEN, TXADDRLEN + TXAMOUNT)]
         ELSE NewWotsAddress :
            n \in {ArrLen(bytes)}})

-----------------------------------------------------------------------------
(* The wallet of protocol/wallet.ts: [name, address, tag, secret] *)

\* WOTSWallet.create: [err, val]
Wallet_create(name, secret, tag, draws) ==
    IF ByteLen(secret) # 32 THEN [err |-> "Invalid secret length", val |-> Null]
    ELSE IF tag # Null /\ ByteLen(tag) # 12 THEN [err |-> "Invalid tag", val |-> Null]
    ELSE The({IF sourcePK.err # "" THEN sourcePK
              ELSE [err |-> "",
                    val |-> [name |-> name, address |-> sourcePK.val, tag |-> tag,
                             secret |-> componentsGenerator(secret).private_seed]] :
                 sourcePK \in {generateAddress(tag, secret, "default", draws)}})

\* sign reading the public seed and the address seed from each other's place
Wallet_sign_swapped(w, data) ==
    IF w.secret = Null \/ w.address = Null
    THEN [err |-> "Cannot sign without secret key or address", val |-> Null]
    ELSE IF ByteLen(w.secret) # 32 THEN [err |-> "Invalid sourceSeed length", val |-> Null]
    ELSE IF ArrLen(w.address) # 2208 THEN [err |-> "Invalid sourceWots length", val |-> Null]
    ELSE [err |-> "",
          val |-> wots_sign(data, w.secret, w.address[WOTSLEN + 2], 0, w.address[WOTSLEN + 1])]

\* WOTSWallet.sign: [err, val]
Wallet_sign(w, data) ==
    IF w.secret = Null \/ w.address = Null
    THEN [err |-> "Cannot sign without secret key or address", val |-> Null]
    ELSE IF ByteLen(w.secret) # 32 THEN [err |-> "Invalid sourceSeed length", val |-> Null]
    ELSE IF ArrLen(w.address) # 2208 THEN [err |-> "Invalid sourceWots length", val |-> Null]
    ELSE [err |-> "",
          val |-> wots_sign(data, w.secret, w.address[WOTSLEN + 1], 0, w.address[WOTSLEN + 2])]

\* verify comparing all but the last 32 bytes of the public key
Wallet_verify_short(w, message, signature) ==
    IF w.address = Null
    THEN [err |-> "Cannot verify without public key (address)", val |-> FALSE]
    ELSE [err |-> "",
          val |-> areEqual(SubSeq(wots_pk_from_sig(signature, message, w.address[WOTSLEN + 1],
                                                   w.address[WOTSLEN + 2]),
                                  1, WOTSLEN - 1),
                           SubSeq(w.address, 1, WOTSLEN - 1))]

\* WOTSWallet.verify: [err, val]
Wallet_verify(w, message, signature) ==
    IF w.address = Null
    THEN [err |-> "Cannot verify without public key (address)", val |-> FALSE]
    ELSE [err |-> "",
          val |-> areEqual(wots_pk_from_sig(signature, message, w.address[WOTSLEN + 1],
                                            w.address[WOTSLEN + 2]),
                           SubSeq(w.address, 1, WOTSLEN))]

-----------------------------------------------------------------------------
(* The wallet of protocol/transaction.ts:                                  *)
(* [name, wots, addrTag, secret, mochimoAddr]                              *)

defaultTag == <<"raw", <<66, 0, 0, 0, 14, 0, 0, 0, 1, 0, 0, 0>>>>

\* ByteUtils.bytesToHex: the string naming the bytes
bytesToHex(bytes) == <<"hex", bytes>>

\* the constructor: [err, val]
WalletV3_new(name, wots, addrTag, secret) ==
    IF secret # Null /\ ByteLen(secret) # 32 THEN [err |-> "Invalid secret length", val |-> Null]
    ELSE IF addrTag # Null /\ ByteLen(addrTag) # 20
    THEN [err |-> "Invalid address tag", val |-> Null]
    ELSE IF wots # Null /\ addrTag = Null THEN [err |-> "TypeError", val |-> Null]
    ELSE [err |-> "",
          val |-> [name |-> name, wots |-> wots, addrTag |-> addrTag, secret |-> secret,
                   wotsAddrHex |-> IF wots = Null THEN Null ELSE bytesToHex(wots),
                   addrTagHex |-> IF addrTag = Null THEN Null ELSE bytesToHex(addrTag),
                   mochimoAddr |->
                       IF wots = Null THEN Null
                       ELSE WotsAddress_setTag(
                                wotsAddressFromBytes(SubSeq(wots, 1, WOTSLEN)), addrTag)]]

\* the end of create: the length test on the tag, then the constructor
WalletV3_tagged(name, sourcePK, addrTag, private_seed) ==
    IF ByteLen(addrTag) # 20 THEN [err |-> "Invalid tag", val |-> Null]
    ELSE WalletV3_new(name, sourcePK, addrTag, private_seed)

\* WOTSWallet.create: [err, val]; v3tag Null when absent, random TRUE when a
\* random generator is passed
WalletV3_create(name, secret, v3tag, random, fill, draws) ==
    IF ByteLen(secret) # 32 THEN [err |-> "Invalid secret length", val |-> Null]
    ELSE The({IF sourcePK.err # "" THEN sourcePK
              ELSE IF ArrLen(sourcePK.val) # 2208
              THEN [err |-> "Invalid sourcePK length", val |-> Null]
              ELSE WalletV3_tagged(
                       name, sourcePK.val,
                       IF v3tag = Null
                       THEN WotsAddress_getTag(
                                wotsAddressFromBytes(SubSeq(sourcePK.val, 1, WOTSLEN)))
                       ELSE v3tag,
                       IF random THEN secret ELSE componentsGenerator(secret).private_seed) :
                 sourcePK \in {IF random
                               THEN generateRandomAddress(defaultTag, secret, fill, draws)
                               ELSE generateAddress(defaultTag, secret, "default", draws)}})

\* getAddress
WalletV3_getAddress(w) ==
    IF w.mochimoAddr = Null THEN Null ELSE Slice(WotsAddress_bytes(w.mochimoAddr), 0, 40)

\* getAddrTag
WalletV3_getAddrTag(w) == w.addrTag

\* getSecret
WalletV3_getSecret(w) == w.secret

\* getWots
WalletV3_getWots(w) == w.wots

\* getWotsHex, getAddrTagHex
WalletV3_getWotsHex(w) == w.wotsAddrHex
WalletV3_getAddrTagHex(w) == w.addrTagHex

\* getWotsPk, getWotsPubSeed, getWotsAdrs
WalletV3_getWotsPk(w) == IF w.wots = Null THEN Null ELSE SubSeq(w.wots, 1, WOTSLEN)
WalletV3_getWotsPubSeed(w) == IF w.wots = Null THEN Null ELSE w.wots[WOTSLEN + 1]
WalletV3_getWotsAdrs(w) == IF w.wots = Null THEN Null ELSE w.wots[WOTSLEN + 2]

\* getAddrHash: WotsAddress has no method of that name, a call on one throws
WalletV3_getAddrHash(w) ==
    IF w.mochimoAddr = Null THEN [err |-> "", val |-> Null]
    ELSE [err |-> "TypeError", val |-> Null]

\* ByteUtils.clear(data): data.fill(0), on a string and on an array of chunks
ByteUtils_clear(data) == Raw(Zeros(ByteLen(data)))
ByteUtils_clearAll(arr) == ArrayOf([i \in 1..Len(arr) |-> ByteUtils_clear(arr[i])])

\* clear(): the wallet it leaves
WalletV3_clear(w) ==
    [w EXCEPT !.secret = IF @ = Null THEN @ ELSE ByteUtils_clear(@),
              !.wots = IF @ = Null THEN @ ELSE ByteUtils_clearAll(@),
              !.addrTag = IF @ = Null THEN @ ELSE ByteUtils_clear(@),
              !.addrTagHex = Null,
              !.wotsAddrHex = Null,
              !.mochimoAddr = Null]

\* sign: [err, val]
WalletV3_sign(w, data) ==
    IF w.secret = Null \/ w.wots = Null
    THEN [err |-> "Cannot sign without secret key or address", val |-> Null]
    ELSE IF ByteLen(w.secret) # 32 THEN [err |-> "Invalid sourceSeed length", val |-> Null]
    ELSE IF ArrLen(w.wots) # 2208 THEN [err |-> "Invalid sourceWots length", val |-> Null]
    ELSE [err |-> "",
          val |-> wots_sign(data, w.secret, w.wots[WOTSLEN + 1], 0, w.wots[WOTSLEN + 2])]

\* verify: [err, val]
WalletV3_verify(w, message, signature) ==
    IF w.wots = Null
    THEN [err |-> "Cannot verify without public key (address)", val |-> FALSE]
    ELSE [err |-> "",
          val |-> areEqual(wots_pk_from_sig(signature, message, w.wots[WOTSLEN + 1],
                                            w.wots[WOTSLEN + 2]),
                           SubSeq(w.wots, 1, WOTSLEN))]

-----------------------------------------------------------------------------
(* Sample inputs.  Sample k of a kind is defined for every k >= 1; a bound  *)
(* says how many samples of the kind a specification draws from.           *)

NMsg == 6
NSeed == 2
NAddr == 2

\* messages: the test vector 0x34.., all zero, all 0xff, the 5-byte message
\* of the wallet tests, the same with a zero byte appended, 33 bytes of 0x34,
\* then 32 varied bytes
MsgSample(k) ==
    CASE k = 1 -> Raw(Fill(32, 52))
      [] k = 2 -> Raw(Zeros(32))
      [] k = 3 -> Raw(Fill(32, 255))
      [] k = 4 -> Raw(<<1, 2, 3, 4, 5>>)
      [] k = 5 -> Raw(<<1, 2, 3, 4, 5, 0>>)
      [] k = 6 -> Raw(Fill(33, 52))
      [] OTHER -> Raw(ArrayOf([i \in 1..32 |-> (k * 41 + i * 29) % 256]))

\* seeds 0x12.., 0x13.., ...; public seeds 0x56.., 0x57.., ...
SeedSample(k) == Raw(Fill(32, 17 + k))
PubSeedSample(k) == Raw(Fill(32, 85 + k))

\* address buffers: 0x78.., all zero, then varied bytes
AddrSample(k) ==
    CASE k = 1 -> Raw(Fill(32, 120))
      [] k = 2 -> Raw(Zeros(32))
      [] OTHER -> Raw(ArrayOf([i \in 1..32 |-> (k * 67 + i * 13) % 256]))

-----------------------------------------------------------------------------
(* The WOTS functions on their own: calc holds the inputs of one run and   *)
(* the arrays computed so far, <<>> for an array not computed yet.         *)

NoCalc == [msg |-> Null, seed |-> Null, pub_seed |-> Null, addr |-> Null,
           pk |-> <<>>, sig |-> <<>>, vpk |-> <<>>]
NoWallet == Null
\* no ByteBuffer yet: buf is the reference of its array, 0 for none
NoBuffer == [buf |-> 0, pos |-> 0, byteOrder |-> BIG_ENDIAN]
\* no MochimoHasher yet; hasher is the @noble/hashes object: the bytes it absorbed
NoHasher == [algorithm |-> "", hasher |-> <<>>]
NoMem == [arrays |-> <<>>, bb |-> NoBuffer, ops |-> 0, hasher |-> NoHasher, passed |-> <<>>]
Idle == [op |-> "idle", in |-> <<>>, rnd |-> <<>>, out |-> Null, err |-> ""]

InitWots ==
    /\ \E m \in 1..NMsg, s \in 1..NSeed, a \in 1..NAddr :
           calc = [NoCalc EXCEPT !.msg = MsgSample(m), !.seed = SeedSample(s),
                                 !.pub_seed = PubSeedSample(s), !.addr = AddrSample(a)]
    /\ wallet = NoWallet
    /\ last = Idle
    /\ before = Idle
    /\ mem = NoMem

\* WOTS.wots_pkgen(pk, seed, pub_seed, 0, addr)
Pkgen ==
    /\ calc.pk = <<>>
    /\ calc' = [calc EXCEPT !.pk = wots_pkgen(calc.seed, calc.pub_seed, 0, calc.addr)]
    /\ UNCHANGED <<wallet, last, before, mem>>

\* WOTS.wots_sign(sig, msg, seed, pub_seed, 0, addr)
Sign ==
    /\ calc.sig = <<>>
    /\ calc' = [calc EXCEPT !.sig = wots_sign(calc.msg, calc.seed, calc.pub_seed, 0, calc.addr)]
    /\ UNCHANGED <<wallet, last, before, mem>>

\* WOTS.wots_pk_from_sig(sig, msg, pub_seed, addr)
PkFromSig ==
    /\ calc.sig # <<>>
    /\ calc.vpk = <<>>
    /\ calc' = [calc EXCEPT !.vpk = wots_pk_from_sig(calc.sig, calc.msg, calc.pub_seed,
                                                     calc.addr)]
    /\ UNCHANGED <<wallet, last, before, mem>>

NextWots == Pkgen \/ Sign \/ PkFromSig

SpecWots == InitWots /\ [][NextWots]_vars

\* C1: the public key recovered from the signature of a 32-byte message,
\* signed with offset 0, is the public key generated from the same seed,
\* public seed and address
C1_RoundTrip ==
    (calc.pk # <<>> /\ calc.vpk # <<>> /\ ByteLen(calc.msg) = 32) => calc.vpk = calc.pk

\* a run where pkgen, sign and pk_from_sig have all acted on a 32-byte
\* message some chain of which is walked by both the signer and the verifier
C1_Witness ==
    /\ calc.pk # <<>> /\ calc.vpk # <<>> /\ ByteLen(calc.msg) = 32
    /\ areEqual(calc.vpk, calc.pk)
    /\ \E i \in 1..WOTSLEN : calc.sig[i] # calc.pk[i] /\ calc.sig[i] # expand_seed(calc.seed)[i]

-----------------------------------------------------------------------------
(* Sample inputs of address and wallet generation *)

NSecret == 3
NTag == 6
NV3Tag == 3
NDraws == 2
NFill == 2
NAddress == 5

\* secrets: the test vector 0x12.., 31 bytes, bytes with the high bit set,
\* then 32 varied bytes
SecretSample(k) ==
    CASE k = 1 -> Raw(Fill(32, 18))
      [] k = 2 -> Raw(Fill(31, 18))
      [] k = 3 -> Raw(Fill(32, 171))
      [] OTHER -> Raw(ArrayOf([i \in 1..32 |-> (k * 53 + i * 17) % 256]))

\* legacy tags: none, 0x34.., the default tag of transaction.ts (first byte
\* 0x42), all zero, 11 bytes, 13 bytes, then 12 bytes in 100..199
TagSample(k) ==
    CASE k = 1 -> Null
      [] k = 2 -> Raw(Fill(12, 52))
      [] k = 3 -> <<"raw", <<66, 0, 0, 0, 14, 0, 0, 0, 1, 0, 0, 0>>>>
      [] k = 4 -> Raw(Zeros(12))
      [] k = 5 -> Raw(Fill(11, 52))
      [] k = 6 -> Raw(Fill(13, 52))
      [] OTHER -> Raw(ArrayOf([i \in 1..12 |-> 100 + ((k * 7 + i) % 100)]))

\* v3 tags: none, 20 bytes 0x34.., 12 bytes, then 20 varied bytes
V3TagSample(k) ==
    CASE k = 1 -> Null
      [] k = 2 -> Raw(Fill(20, 52))
      [] k = 3 -> Raw(Fill(12, 52))
      [] OTHER -> Raw(ArrayOf([i \in 1..20 |-> (k * 31 + i * 5) % 256]))

\* the 32 bytes the random generator writes into a message
DrawMsg(k) == Raw(ArrayOf([i \in 1..32 |-> (k * 97 + i * 31) % 256]))

\* the messages of the ten validation rounds: ten times the same message,
\* then two messages in turn
DrawsSample(k) ==
    IF k = 1 THEN ArrayOf([i \in 1..SELF_CHECK_ROUNDS |-> DrawMsg(1)])
    ELSE ArrayOf([i \in 1..SELF_CHECK_ROUNDS |-> DrawMsg(k - 1 + (i % 2))])

\* the 2208 random bytes of generateRandomAddress_
FillSample(k) == Rand(k, 2208)

\* addresses handed to Tag.tag: 2208 bytes, 2207, 2209, 2144, none, then
\* 2208 other bytes
AddressSample(k) ==
    CASE k = 1 -> ArrayOf([i \in 1..69 |-> Raw(Fill(32, i))])
      [] k = 2 -> ArrayOf([i \in 1..69 |-> Raw(Fill(IF i = 69 THEN 31 ELSE 32, i))])
      [] k = 3 -> ArrayOf([i \in 1..70 |-> Raw(Fill(IF i = 70 THEN 1 ELSE 32, i))])
      [] k = 4 -> ArrayOf([i \in 1..67 |-> Raw(Fill(32, i))])
      [] k = 5 -> <<>>
      [] OTHER -> ArrayOf([i \in 1..69 |-> Raw(Fill(32, k + i))])

NameSample == "wallet"

-----------------------------------------------------------------------------
(* Address and wallet generation: one call, then the same call again with  *)
(* other random bytes.                                                     *)

InitGen ==
    /\ calc = NoCalc
    /\ wallet = NoWallet
    /\ last = Idle
    /\ before = Idle
    /\ mem = NoMem

\* the record of a call that returned r = [err, val]
Call(op, in, rnd, r) ==
    The({[op |-> op, in |-> in, rnd |-> rnd, out |-> x.val, err |-> x.err] : x \in {r}})

\* what a call of op on in with the random bytes rnd returns: [err, val]
Result(op, in, rnd) ==
    CASE op = "generateAddress" ->
             generateAddress(in[1], in[2], in[3], DrawsSample(rnd[1]))
      [] op = "create" ->
             Wallet_create(in[1], in[2], in[3], DrawsSample(rnd[1]))
      [] op = "createV3" ->
             WalletV3_create(in[1], in[2], in[3], in[4], FillSample(rnd[2]),
                             DrawsSample(rnd[1]))

\* WOTS.generateAddress(tag, secret, componentsGenerator)
GenerateAddress ==
    /\ last.op = "idle"
    /\ \E t \in 1..NTag, s \in 1..NSecret, g \in {"none", "default", "chained"},
          d \in 1..NDraws :
           last' = Call("generateAddress", <<TagSample(t), SecretSample(s), g>>, <<d>>,
                        Result("generateAddress", <<TagSample(t), SecretSample(s), g>>, <<d>>))
    /\ UNCHANGED <<calc, wallet, before, mem>>

\* WOTSWallet.create(name, secret, tag) of protocol/wallet.ts
Create ==
    /\ last.op = "idle"
    /\ \E t \in 1..NTag, s \in 1..NSecret, d \in 1..NDraws :
           /\ last' = Call("create", <<NameSample, SecretSample(s), TagSample(t)>>, <<d>>,
                           Result("create", <<NameSample, SecretSample(s), TagSample(t)>>, <<d>>))
           /\ wallet' = last'.out
    /\ UNCHANGED <<calc, before, mem>>

\* WOTSWallet.create(name, secret, v3tag, randomGenerator) of
\* protocol/transaction.ts; without a random generator no fill is drawn
CreateV3 ==
    /\ last.op = "idle"
    /\ \E s \in 1..NSecret, v \in 1..NV3Tag, random \in BOOLEAN, f \in 1..NFill,
          d \in 1..NDraws :
           /\ random \/ f = 1
           /\ last' = Call("createV3", <<NameSample, SecretSample(s), V3TagSample(v), random>>,
                           <<d, f>>,
                           Result("createV3",
                                  <<NameSample, SecretSample(s), V3TagSample(v), random>>,
                                  <<d, f>>))
           /\ wallet' = last'.out
    /\ UNCHANGED <<calc, before, mem>>

\* the last call made again with the same arguments and other random bytes
Repeat ==
    /\ before.op = "idle"
    /\ last.op \in {"generateAddress", "create", "createV3"}
    /\ \E d \in 1..NDraws, f \in 1..NFill :
           /\ IF last.op = "createV3" THEN last.in[4] \/ f = 1 ELSE f = 1
           /\ <<d, f>> # <<last.rnd[1], IF last.op = "createV3" THEN last.rnd[2] ELSE 1>>
           /\ last' = Call(last.op, last.in, IF last.op = "createV3" THEN <<d, f>> ELSE <<d>>,
                           Result(last.op, last.in, <<d, f>>))
           /\ wallet' = IF last.op = "generateAddress" THEN wallet ELSE last'.out
    /\ before' = last
    /\ UNCHANGED <<calc, mem>>

\* Tag.tag(address, tag)
TagTag ==
    /\ last.op = "idle"
    /\ \E a \in 1..NAddress, t \in 1..NTag :
           last' = Call("Tag.tag", <<AddressSample(a), TagSample(t)>>, <<>>,
                        Tag_tag(AddressSample(a), TagSample(t)))
    /\ UNCHANGED <<calc, wallet, before, mem>>

\* Tag.isValid(tag)
TagIsValid ==
    /\ last.op = "idle"
    /\ \E t \in 1..NTag :
           last' = [op |-> "Tag.isValid", in |-> <<TagSample(t)>>, rnd |-> <<>>,
                    out |-> Tag_isValid(TagSample(t)), err |-> ""]
    /\ UNCHANGED <<calc, wallet, before, mem>>

NextGen == GenerateAddress \/ Create \/ CreateV3 \/ Repeat \/ TagTag \/ TagIsValid

SpecGen == InitGen /\ [][NextGen]_vars

-----------------------------------------------------------------------------
(* A wallet in use as in the wallet tests: create, sign a message, verify  *)
(* the signature against the message, against other messages and against   *)
(* damaged copies.  calc.msg and calc.sig are the signed message and its   *)
(* signature.                                                              *)

NFlip == 3

\* byte v with bit b inverted
FlipBit(v, b) == IF (v \div (2 ^ b)) % 2 = 1 THEN v - 2 ^ b ELSE v + 2 ^ b

\* message m with one bit inverted: byte 0 bit 0, byte 31 bit 7, byte 30 bit 6, ...
FlipMsg(m, k) ==
    Raw([BytesOf(m) EXCEPT ![(((k - 1) * 31) % ByteLen(m)) + 1] =
                               FlipBit(@, ((k - 1) * 7) % 8)])

\* signature s with one bit inverted: in chunk 0, in chunk 33, in chunk 66, ...
FlipSig(s, k) ==
    [s EXCEPT ![(((k - 1) * 33) % Len(s)) + 1] = <<"flip", @, ((k - 1) * 37) % 256>>]

\* signature.subarray(0, 2143)
Shortened(s) == [s EXCEPT ![Len(s)] = Slice(@, 0, ByteLen(@) - 1)]

\* the signature followed by one more byte
Extended(s) == s \o << <<"raw", <<0>>>> >>

\* the message and signature handed to verify
VerifyInput(kind, k, m, s) ==
    CASE kind = "same" -> <<m, s>>
      [] kind = "other" -> <<MsgSample(k), s>>
      [] kind = "flipmsg" -> <<FlipMsg(m, k), s>>
      [] kind = "flipsig" -> <<m, FlipSig(s, k)>>
      [] kind = "short" -> <<m, Shortened(s)>>
      [] kind = "long" -> <<m, Extended(s)>>

\* wallet.sign(data) on a wallet just created
WalletSign ==
    /\ last.op = "create" /\ last.err = ""
    /\ \E k \in 1..NMsg :
           /\ last' = Call("sign", <<MsgSample(k)>>, <<>>, Wallet_sign(wallet, MsgSample(k)))
           /\ calc' = [NoCalc EXCEPT !.msg = MsgSample(k),
                                     !.sig = IF last'.err = "" THEN last'.out ELSE <<>>]
    /\ UNCHANGED <<wallet, before, mem>>

\* wallet.verify(message, signature) after sign
WalletVerify ==
    /\ last.op = "sign" /\ last.err = ""
    /\ \E kind \in {"same", "other", "flipmsg", "flipsig", "short", "long"},
          k \in 1..(NMsg + NFlip) :
           /\ CASE kind = "other" -> k <= NMsg
                [] kind = "flipmsg" -> k <= NFlip /\ ByteLen(calc.msg) > 0
                [] kind = "flipsig" -> k <= NFlip
                [] OTHER -> k = 1
           /\ \E v \in {VerifyInput(kind, k, calc.msg, calc.sig)} :
                  last' = Call("verify", v, <<>>, Wallet_verify(wallet, v[1], v[2]))
    /\ UNCHANGED <<calc, wallet, before, mem>>

NextWallet == Create \/ WalletSign \/ WalletVerify

SpecWallet == InitGen /\ [][NextWallet]_vars

C3_BitFlipRejected ==
    (/\ last.op = "verify" /\ ByteLen(calc.msg) = 32
     /\ \/ /\ last.in[2] = calc.sig
           /\ IsConcrete(last.in[1]) /\ ByteLen(last.in[1]) = 32
           /\ \E i \in 1..32, b \in 0..7 :
                  BytesOf(last.in[1]) = [BytesOf(calc.msg) EXCEPT ![i] = FlipBit(@, b)]
        \/ /\ last.in[1] = calc.msg
           /\ Len(last.in[2]) = Len(calc.sig)
           /\ \E j \in 1..Len(calc.sig) :
                  /\ last.in[2][j][1] = "flip"
                  /\ last.in[2][j][2] = calc.sig[j]
                  /\ \A i \in 1..Len(calc.sig) : i # j => last.in[2][i] = calc.sig[i])
        => (last.err = "" /\ last.out = FALSE)

\* the last 32 bytes of the signature of a 32-byte message had one bit
\* inverted and verify returned false
C3_Witness ==
    /\ last.op = "verify" /\ ByteLen(calc.msg) = 32
    /\ last.in[1] = calc.msg
    /\ Len(last.in[2]) = WOTSLEN
    /\ last.in[2][WOTSLEN][1] = "flip"
    /\ last.in[2][WOTSLEN][2] = calc.sig[WOTSLEN]
    /\ SubSeq(last.in[2], 1, WOTSLEN - 1) = SubSeq(calc.sig, 1, WOTSLEN - 1)
    /\ last.err = "" /\ last.out = FALSE

\* C4: verify returns false for the signature of a message of any length
\* and any other message
C4_OtherMessageRejected ==
    (last.op = "verify" /\ last.in[2] = calc.sig /\ last.in[1] # calc.msg)
        => (last.err = "" /\ last.out = FALSE)

\* C5: sign fails on a message that is not 32 bytes long; verify fails on
\* such a message and on a signature that is not 2144 bytes long
C5_WrongSizeFails ==
    /\ (last.op = "sign" /\ ByteLen(last.in[1]) # 32) => last.err # ""
    /\ (last.op = "verify" /\ (ByteLen(last.in[1]) # 32 \/ ArrLen(last.in[2]) # WOTSSIGBYTES))
           => last.err # ""

C7_CreateV3Returns ==
    (/\ last.op = "createV3" /\ ~last.in[4]
     /\ ByteLen(last.in[2]) = 32
     /\ (last.in[3] = Null \/ ByteLen(last.in[3]) = 20))
        => /\ last.err = ""
           /\ ByteLen(WalletV3_getSecret(last.out)) = 32
           /\ ByteLen(WalletV3_getAddrTag(last.out)) = 20
           /\ (last.in[3] # Null => WalletV3_getAddrTag(last.out) = last.in[3])
           /\ ArrLen(WalletV3_getWots(last.out)) = 2208

\* C8: generateAddress returns the 67 chunks of wots_pkgen on the
\* components, then public_seed, then addr_seed with its last 12 bytes
\* replaced by the legacy tag when one is given
C8_AddressLayout ==
    (last.op = "generateAddress" /\ last.err = "")
        => \E components \in {applyGenerator(last.in[3], last.in[2])} :
               /\ Len(last.out) = WOTSLEN + 2
               /\ ArrLen(last.out) = 2208
               /\ SubSeq(last.out, 1, WOTSLEN) =
                      wots_pkgen(components.private_seed, components.public_seed, 0,
                                 components.addr_seed)
               /\ last.out[WOTSLEN + 1] = components.public_seed
               /\ Slice(last.out[WOTSLEN + 2], 0, 20) = Slice(components.addr_seed, 0, 20)
               /\ Slice(last.out[WOTSLEN + 2], 20, 32) =
                      IF last.in[1] = Null THEN Slice(components.addr_seed, 20, 32)
                      ELSE last.in[1]

\* generateAddress has returned a tagged address
C8_Witness ==
    /\ last.op = "generateAddress" /\ last.err = ""
    /\ last.in[1] # Null
    /\ ArrLen(last.out) = 2208
    /\ Tag_getTag(last.out).val = last.in[1]
    /\ last.out[WOTSLEN + 2] # applyGenerator(last.in[3], last.in[2]).addr_seed

\* C9: a v3 wallet created with a 32-byte secret has the 40-byte address
\* addrTag then RIPEMD160(SHA3-512(pk)), and created without a tag its
\* addrTag is that hash
C9_V3Address ==
    (/\ last.op = "createV3" /\ ~last.in[4]
     /\ ByteLen(last.in[2]) = 32
     /\ (last.in[3] = Null \/ ByteLen(last.in[3]) = 20))
        => /\ last.err = ""
           /\ ByteLen(WalletV3_getAddress(last.out)) = 40
           /\ WalletV3_getAddress(last.out) =
                  Cat(WalletV3_getAddrTag(last.out),
                      addrHashGenerate(SubSeq(WalletV3_getWots(last.out), 1, WOTSLEN)))
           /\ (last.in[3] = Null =>
                  WalletV3_getAddrTag(last.out) =
                      addrHashGenerate(SubSeq(WalletV3_getWots(last.out), 1, WOTSLEN)))

\* C10: Tag.isValid is true exactly of the 12-byte tags whose first byte is
\* neither 0x00 nor 0x42; Tag.tag succeeds exactly on such a tag and a
\* 2208-byte address; address generation with a 12-byte tag starting 0x00
\* or 0x42 fails
C10_TagValidity ==
    /\ last.op = "Tag.isValid" =>
           (last.out <=> (/\ last.in[1] # Null
                          /\ ByteLen(last.in[1]) = 12
                          /\ BytesOf(last.in[1])[1] \notin {0, 66}))
    /\ last.op = "Tag.tag" =>
           ((last.err = "") <=> (/\ last.in[2] # Null
                                 /\ ByteLen(last.in[2]) = 12
                                 /\ BytesOf(last.in[2])[1] \notin {0, 66}
                                 /\ ArrLen(last.in[1]) = 2208))
    /\ (last.op = "Tag.tag" /\ last.err # "") => last.out = Null
    /\ (/\ last.op \in {"generateAddress", "create"}
        /\ \E tag \in {IF last.op = "create" THEN last.in[3] ELSE last.in[1]} :
               tag # Null /\ ByteLen(tag) = 12 /\ BytesOf(tag)[1] \in {0, 66})
           => last.err # ""

\* Tag.tag has refused the 12-byte tag starting 0x42 on a 2208-byte address
C10_Witness ==
    /\ last.op = "Tag.tag"
    /\ ArrLen(last.in[1]) = 2208
    /\ ByteLen(last.in[2]) = 12 /\ BytesOf(last.in[2])[1] = 66
    /\ last.err = "Invalid tag"

-----------------------------------------------------------------------------
(* The WOTS functions on an address and on its tagged copy: calc holds the *)
(* run on the address, last the run on the copy whose bytes 20..31 are a   *)
(* legacy tag: last.in = <<the copy, the tag>>, last.out = [pk, sig, vpk,  *)
(* valid], each <<>> until computed.                                       *)

NoTagged == [pk |-> <<>>, sig |-> <<>>, vpk |-> <<>>, valid |-> <<>>]

\* the address buffer with the tag in its last 12 bytes: by Tag.tag on the
\* 2208-byte address when Tag.tag takes the tag, written over otherwise
retagged(pk, pub_seed, addr, tag) ==
    IF Tag_isValid(tag) THEN Tag_tag(pk \o <<pub_seed, addr>>, tag).val[WOTSLEN + 2]
    ELSE Cat(Slice(addr, 0, ByteLen(addr) - TAG_LENGTH), tag)

\* a run on message m with secret s, public seed s and address buffer s
InitTagged ==
    /\ \E m \in 1..NMsg, s \in 1..NSeed :
           calc = [NoCalc EXCEPT !.msg = MsgSample(m), !.seed = SeedSample(s),
                                 !.pub_seed = PubSeedSample(s), !.addr = AddrSample(s)]
    /\ wallet = NoWallet
    /\ last = Idle
    /\ before = Idle
    /\ mem = NoMem

\* taggedSourceAddr = Tag.tag(sourceAddress, sourceTag)
Retag ==
    /\ last.op = "idle"
    /\ calc.pk # <<>> /\ calc.sig # <<>> /\ calc.vpk # <<>>
    /\ \E t \in 1..NTag :
           /\ TagSample(t) # Null
           /\ ByteLen(TagSample(t)) = TAG_LENGTH
           /\ last' = [Idle EXCEPT !.op = "retag",
                                   !.in = <<retagged(calc.pk, calc.pub_seed, calc.addr,
                                                     TagSample(t)),
                                            TagSample(t)>>,
                                   !.out = NoTagged]
    /\ UNCHANGED <<calc, wallet, before, mem>>

\* WOTS.wots_pkgen on the tagged copy
PkgenTagged ==
    /\ last.op = "retag" /\ last.out.pk = <<>>
    /\ last' = [last EXCEPT !.out.pk = wots_pkgen(calc.seed, calc.pub_seed, 0, last.in[1])]
    /\ UNCHANGED <<calc, wallet, before, mem>>

\* WOTS.wots_sign on the tagged copy
SignTagged ==
    /\ last.op = "retag" /\ last.out.pk # <<>> /\ last.out.sig = <<>>
    /\ last' = [last EXCEPT !.out.sig = wots_sign(calc.msg, calc.seed, calc.pub_seed, 0,
                                                  last.in[1])]
    /\ UNCHANGED <<calc, wallet, before, mem>>

\* WOTS.wots_pk_from_sig on the tagged copy
PkFromSigTagged ==
    /\ last.op = "retag" /\ last.out.sig # <<>> /\ last.out.vpk = <<>>
    /\ last' = [last EXCEPT !.out.vpk = wots_pk_from_sig(last.out.sig, calc.msg,
                                                         calc.pub_seed, last.in[1])]
    /\ UNCHANGED <<calc, wallet, before, mem>>

\* WOTS.isValid(sourceSecret, taggedSourceAddr)
IsValidTagged ==
    /\ last.op = "retag" /\ last.out.vpk # <<>> /\ last.out.valid = <<>>
    /\ \E d \in 1..NDraws :
           last' = [last EXCEPT !.out.valid =
                        <<isValid(calc.seed, calc.pk \o <<calc.pub_seed, last.in[1]>>,
                                  DrawMsg(d)).val>>]
    /\ UNCHANGED <<calc, wallet, before, mem>>

NextTagged ==
    \/ Pkgen \/ Sign \/ PkFromSig
    \/ Retag \/ PkgenTagged \/ SignTagged \/ PkFromSigTagged \/ IsValidTagged

SpecTagged == InitTagged /\ [][NextTagged]_vars

\* C11: wots_pkgen, wots_sign and wots_pk_from_sig give the same arrays on
\* an address buffer and on its copy with other bytes 20..31, and the
\* address made of the public key, the public seed and the tagged copy is
\* valid for the secret
C11_TagIndependent ==
    last.op = "retag" =>
        /\ last.out.pk # <<>> => last.out.pk = calc.pk
        /\ last.out.sig # <<>> => last.out.sig = calc.sig
        /\ last.out.vpk # <<>> => last.out.vpk = calc.vpk
        /\ last.out.valid # <<>> => last.out.valid = <<TRUE>>

\* the three functions and isValid have run on a copy that differs from the
\* address buffer in its last 12 bytes only
C11_Witness ==
    /\ last.op = "retag"
    /\ last.in[1] # calc.addr
    /\ Slice(last.in[1], 0, 20) = Slice(calc.addr, 0, 20)
    /\ Slice(last.in[1], 20, 32) = last.in[2]
    /\ last.out.pk = calc.pk /\ Len(last.out.pk) = WOTSLEN
    /\ last.out.sig = calc.sig /\ Len(last.out.sig) = WOTSLEN
    /\ last.out.vpk = calc.vpk
    /\ last.out.valid = <<TRUE>>

-----------------------------------------------------------------------------
(* Base58 tags of utils/tag-utils.ts.  A string is the sequence of its     *)
(* characters, a byte array the sequence of its bytes; null and undefined  *)
(* are Null and NoValue.                                                   *)

NoValue == <<"undefined">>

\* bit i of a ^ b, in place
XorBit(a, b, i) == (((a \div (2 ^ i)) + (b \div (2 ^ i))) % 2) * (2 ^ i)

\* a ^ b on 16-bit values
Xor16(a, b) ==
    (((XorBit(a, b, 0) + XorBit(a, b, 1)) + (XorBit(a, b, 2) + XorBit(a, b, 3)))
        + ((XorBit(a, b, 4) + XorBit(a, b, 5)) + (XorBit(a, b, 6) + XorBit(a, b, 7))))
    + (((XorBit(a, b, 8) + XorBit(a, b, 9)) + (XorBit(a, b, 10) + XorBit(a, b, 11)))
        + ((XorBit(a, b, 12) + XorBit(a, b, 13)) + (XorBit(a, b, 14) + XorBit(a, b, 15))))

CRC_POLY == 4129

\* one shift of the 16-bit register
crc_shift(c) ==
    IF c >= 32768 THEN Xor16((2 * c) % 65536, CRC_POLY) ELSE (2 * c) % 65536

\* the table of the register after eight shifts from x << 8
CRC_TABLE ==
    [x \in 0..255 |->
        crc_shift(crc_shift(crc_shift(crc_shift(
            crc_shift(crc_shift(crc_shift(crc_shift(256 * x))))))))]

\* the register after one more byte
crc_update(c, byte) ==
    Xor16((c % 256) * 256, CRC_TABLE[Xor16(c \div 256, byte)])

\* the register after data[i..end - 1]
RECURSIVE crc_from(_, _, _, _)
crc_from(data, i, end, c) ==
    IF i >= end THEN c
    ELSE IF i + 1 = end THEN crc_update(c, data[i + 1])
    ELSE The({crc_from(data, (i + end) \div 2, end, n) :
                 n \in {crc_from(data, i, (i + end) \div 2, c)}})

\* crc(data, offset, length): CRC-16 with polynomial 0x1021 from register 0
crc(data, offset, length) == crc_from(data, offset, offset + length, 0)

ALPHABET ==
    <<"1", "2", "3", "4", "5", "6", "7", "8", "9", "A", "B", "C", "D", "E", "F", "G", "H",
      "J", "K", "L", "M", "N", "P", "Q", "R", "S", "T", "U", "V", "W", "X", "Y", "Z", "a",
      "b", "c", "d", "e", "f", "g", "h", "i", "j", "k", "m", "n", "o", "p", "q", "r", "s",
      "t", "u", "v", "w", "x", "y", "z">>

BASE == Len(ALPHABET)

\* the value of a character: 0..57, or 255 for a character outside the alphabet
BASE_MAP(ch) ==
    IF \E i \in 1..BASE : ALPHABET[i] = ch
    THEN (CHOOSE i \in 1..BASE : ALPHABET[i] = ch) - 1
    ELSE 255

\* the digits of v in base b, most significant first, none for 0
RECURSIVE DigitsOf(_, _)
DigitsOf(v, b) == IF v = 0 THEN <<>> ELSE DigitsOf(v \div b, b) \o <<v % b>>

\* the digits d[lo + 1..hi] in base b times mul plus carry: [out, carry], the
\* digits and the carry out of them
RECURSIVE MulAddRange(_, _, _, _, _, _)
MulAddRange(d, lo, hi, b, mul, carry) ==
    IF lo + 1 >= hi
    THEN The({[out |-> <<v % b>>, carry |-> v \div b] : v \in {d[hi] * mul + carry}})
    ELSE The({The({[out |-> l.out \o r.out, carry |-> l.carry] :
                      l \in {MulAddRange(d, lo, (lo + hi) \div 2, b, mul, r.carry)}}) :
                 r \in {MulAddRange(d, (lo + hi) \div 2, hi, b, mul, carry)}})

\* digits d in base b times mul plus carry
MulAdd(d, b, mul, carry) ==
    IF d = <<>> THEN DigitsOf(carry, b)
    ELSE The({DigitsOf(r.carry, b) \o r.out : r \in {MulAddRange(d, 0, Len(d), b, mul, carry)}})

\* the number acc in base to with the digits src[i..end - 1] in base from
\* appended
RECURSIVE Convert(_, _, _, _, _, _)
Convert(src, i, end, from, to, acc) ==
    IF i >= end THEN acc
    ELSE IF i + 1 = end THEN MulAdd(acc, to, from, src[i + 1])
    ELSE The({Convert(src, (i + end) \div 2, end, from, to, n) :
                 n \in {Convert(src, i, (i + end) \div 2, from, to, acc)}})

\* the number of leading elements of s equal to z
RECURSIVE Leading(_, _, _)
Leading(s, z, i) == IF i < Len(s) /\ s[i + 1] = z THEN Leading(s, z, i + 1) ELSE i

\* bs58.encode: a "1" for every leading zero byte, then the digits
bs58_encode_from(source, zeroes) ==
    ArrayOf([i \in 1..zeroes |-> "1"])
        \o The({ArrayOf([i \in 1..Len(ds) |-> ALPHABET[ds[i] + 1]]) :
                   ds \in {Convert(source, zeroes, Len(source), 256, BASE, <<>>)}})

bs58_encode(source) == bs58_encode_from(source, Leading(source, 0, 0))

\* bs58.decode: [err, val]
bs58_decode_from(source, zeroes) ==
    IF \E i \in (zeroes + 1)..Len(source) : BASE_MAP(source[i]) = 255
    THEN [err |-> "Non-base58 character", val |-> Null]
    ELSE [err |-> "",
          val |-> Zeros(zeroes)
                      \o Convert(ArrayOf([i \in 1..Len(source) |-> BASE_MAP(source[i])]),
                                 zeroes, Len(source), BASE, 256, <<>>)]

bs58_decode(source) ==
    IF source = Null \/ source = NoValue THEN [err |-> "Expected String", val |-> Null]
    ELSE IF Len(source) = 0 THEN [err |-> "", val |-> <<>>]
    ELSE bs58_decode_from(source, Leading(source, "1", 0))

\* addrTagToBase58 with the checksum written high byte first
addrTagToBase58_highFirst(addrTag) ==
    IF addrTag = Null \/ addrTag = NoValue THEN [err |-> "", val |-> Null]
    ELSE IF Len(addrTag) # 20 THEN [err |-> "Invalid address tag length", val |-> Null]
    ELSE [err |-> "",
          val |-> The({bs58_encode(addrTag \o <<(csum \div 256) % 256, csum % 256>>) :
                          csum \in {crc(addrTag, 0, 20)}})]

\* addrTagToBase58: [err, val]
addrTagToBase58(addrTag) ==
    IF addrTag = Null \/ addrTag = NoValue THEN [err |-> "", val |-> Null]
    ELSE IF Len(addrTag) # 20 THEN [err |-> "Invalid address tag length", val |-> Null]
    ELSE [err |-> "",
          val |-> The({bs58_encode(addrTag \o <<csum % 256, (csum \div 256) % 256>>) :
                          csum \in {crc(addrTag, 0, 20)}})]

\* the try block of validateBase58Tag: [err, val]
validateBase58Tag_try(tag) ==
    The({IF decoded.err # "" THEN decoded
         ELSE IF Len(decoded.val) # 22 THEN [err |-> "", val |-> FALSE]
         ELSE [err |-> "",
               val |-> 256 * decoded.val[22] + decoded.val[21]
                           = crc(SubSeq(decoded.val, 1, 20), 0, 20)] :
            decoded \in {bs58_decode(tag)}})

\* validateBase58Tag without the catch
validateBase58Tag_uncaught(tag) == validateBase58Tag_try(tag)

\* validateBase58Tag: [err, val]
validateBase58Tag(tag) ==
    The({IF r.err # "" THEN [err |-> "", val |-> FALSE] ELSE r :
            r \in {validateBase58Tag_try(tag)}})

\* base58ToAddrTag: [err, val]
base58ToAddrTag(tag) ==
    The({IF decoded.err # "" THEN decoded
         ELSE IF Len(decoded.val) # 22
         THEN [err |-> "Invalid base58 tag length", val |-> Null]
         ELSE [err |-> "", val |-> SubSeq(decoded.val, 1, 20)] :
            decoded \in {bs58_decode(tag)}})

NB58Tag == 8
NString == 10
NCorrupt == 4

\* the test vector 3f1fba70..ca59 and its encoding
VectorTag ==
    <<63, 31, 186, 112, 37, 199, 211, 116, 112, 231, 38, 1, 23, 167, 43, 125, 233, 245,
      202, 89>>
VectorBase58 ==
    <<"J", "8", "g", "q", "Y", "e", "h", "T", "J", "h", "J", "W", "r", "f", "c", "U", "d",
      "7", "6", "6", "s", "U", "Q", "8", "T", "H", "k", "t", "N", "s">>

\* tags handed to addrTagToBase58: the test vector, 20 zero bytes, null, 10
\* bytes, 20 bytes 0xff, then varied bytes after k - 5 zero bytes
B58TagSample(k) ==
    CASE k = 1 -> VectorTag
      [] k = 2 -> Zeros(20)
      [] k = 3 -> Null
      [] k = 4 -> Zeros(10)
      [] k = 5 -> Fill(20, 255)
      [] OTHER -> ArrayOf([i \in 1..20 |-> IF i <= k - 5 THEN 0 ELSE (k * 53 + i * 19) % 256])

\* strings handed to the decoders: the vector with its last character
\* changed, strings with characters outside the alphabet, the empty string,
\* null, undefined, encodings of 4, 21 and 23 bytes and of the vector with
\* its checksum bytes swapped, then other encodings of 22 bytes
StringSample(k) ==
    CASE k = 1 -> [VectorBase58 EXCEPT ![Len(VectorBase58)] = "X"]
      [] k = 2 -> <<"n", "o", "t", "-", "b", "a", "s", "e", "5", "8", "!">>
      [] k = 3 -> <<"0", "O", "1", "I", "l">>
      [] k = 4 -> <<>>
      [] k = 5 -> Null
      [] k = 6 -> NoValue
      [] k = 7 -> bs58_encode(<<222, 173, 190, 239>>)
      [] k = 8 -> bs58_encode(VectorTag \o <<51>>)
      [] k = 9 -> bs58_encode(VectorTag \o <<51, 88, 0>>)
      [] k = 10 -> bs58_encode(VectorTag \o <<88, 51>>)
      [] OTHER -> bs58_encode(Fill(22, k))

\* string s with one character replaced by another of the alphabet
CorruptAt(s, k) ==
    [s EXCEPT ![Len(s) - (((k - 1) * 11) % Len(s))] =
                  ALPHABET[((BASE_MAP(@) + k * 17) % BASE) + 1]]

\* the strings a decoder may be handed next
CurrentStrings ==
    IF last.op = "idle" THEN {StringSample(k) : k \in 1..NString}
    ELSE IF last.op \in {"addrTagToBase58", "corrupt"} /\ last.err = "" /\ last.out # Null
    THEN {last.out}
    ELSE {}

\* addrTagToBase58(tagBytes)
AddrTagToBase58 ==
    /\ last.op = "idle"
    /\ \E k \in 1..NB58Tag :
           last' = Call("addrTagToBase58", <<B58TagSample(k)>>, <<>>,
                        addrTagToBase58(B58TagSample(k)))
    /\ UNCHANGED <<calc, wallet, before, mem>>

\* corruptTag = base58Tag with a character changed
Corrupt ==
    /\ last.op = "addrTagToBase58" /\ last.err = "" /\ last.out # Null
    /\ \E k \in 1..NCorrupt :
           last' = [Idle EXCEPT !.op = "corrupt", !.in = <<last.out>>,
                                !.out = CorruptAt(last.out, k)]
    /\ before' = last
    /\ UNCHANGED <<calc, wallet, mem>>

\* base58ToAddrTag(s)
Base58ToAddrTag ==
    /\ \E s \in CurrentStrings : last' = Call("base58ToAddrTag", <<s>>, <<>>, base58ToAddrTag(s))
    /\ before' = IF last.op = "idle" THEN before ELSE last
    /\ UNCHANGED <<calc, wallet, mem>>

\* validateBase58Tag(s)
ValidateBase58Tag ==
    /\ \E s \in CurrentStrings :
           last' = Call("validateBase58Tag", <<s>>, <<>>, validateBase58Tag(s))
    /\ before' = IF last.op = "idle" THEN before ELSE last
    /\ UNCHANGED <<calc, wallet, mem>>

NextBase58 == AddrTagToBase58 \/ Corrupt \/ Base58ToAddrTag \/ ValidateBase58Tag

SpecBase58 == InitGen /\ [][NextBase58]_vars

\* C12: the encoding of a 20-byte tag is the base58 of the tag followed by
\* its CRC-16, low byte then high byte; it decodes to the tag and validates
C12_Base58RoundTrip ==
    /\ (last.op = "addrTagToBase58" /\ last.out # Null) =>
           \E csum \in {crc(last.in[1], 0, 20)} :
               bs58_decode(last.out) =
                   [err |-> "", val |-> last.in[1] \o <<csum % 256, csum \div 256>>]
    /\ (last.op = "base58ToAddrTag" /\ before.op = "addrTagToBase58") =>
           (last.err = "" /\ last.out = before.in[1])
    /\ (last.op = "validateBase58Tag" /\ before.op = "addrTagToBase58") =>
           (last.err = "" /\ last.out = TRUE)

\* the test vector was encoded to J8gq..tNs and decoded back
C12_Witness ==
    /\ last.op = "base58ToAddrTag" /\ before.op = "addrTagToBase58"
    /\ before.in[1] = VectorTag
    /\ before.out = VectorBase58
    /\ last.in[1] = VectorBase58
    /\ last.out = VectorTag

\* C13: base58ToAddrTag returns the first 20 decoded bytes when the string
\* decodes to 22 bytes ending in the CRC-16 of the first 20, low byte first,
\* and fails otherwise
C13_DecodeValidates ==
    last.op = "base58ToAddrTag" =>
        \E d \in {bs58_decode(last.in[1])} :
            IF d.err = "" /\ Len(d.val) = 22
               /\ d.val[21] + 256 * d.val[22] = crc(d.val, 0, 20)
            THEN last.err = "" /\ last.out = SubSeq(d.val, 1, 20)
            ELSE last.err # ""

\* C14: validateBase58Tag throws nothing and returns true exactly when the
\* string decodes to 22 bytes ending in the CRC-16 of the first 20, low byte
\* first
C14_ValidateTotal ==
    last.op = "validateBase58Tag" =>
        /\ last.err = ""
        /\ last.out \in BOOLEAN
        /\ last.out <=> \E d \in {bs58_decode(last.in[1])} :
                            /\ d.err = "" /\ Len(d.val) = 22
                            /\ d.val[21] + 256 * d.val[22] = crc(d.val, 0, 20)

\* validateBase58Tag returned false for a string bs58.decode throws on
C14_Witness ==
    /\ last.op = "validateBase58Tag"
    /\ bs58_decode(last.in[1]).err # ""
    /\ last.err = "" /\ last.out = FALSE

-----------------------------------------------------------------------------
(* The static address functions of WotsAddress, one call or two in a row.  *)

NPk == 8

\* arrays handed to addrFromWots: 2144 bytes of 0x56, of 0x42, 100 bytes,
\* 2143, 2145, 2208, none, then 2144 varied bytes
PkSample(k) ==
    CASE k = 1 -> ArrayOf([i \in 1..WOTSLEN |-> Raw(Fill(32, 86))])
      [] k = 2 -> ArrayOf([i \in 1..WOTSLEN |-> Raw(Fill(32, 66))])
      [] k = 3 -> ArrayOf([i \in 1..4 |-> Raw(Zeros(IF i = 4 THEN 4 ELSE 32))])
      [] k = 4 -> ArrayOf([i \in 1..WOTSLEN |-> Raw(Fill(IF i = WOTSLEN THEN 31 ELSE 32, 86))])
      [] k = 5 -> ArrayOf([i \in 1..(WOTSLEN + 1) |->
                              Raw(Fill(IF i = WOTSLEN + 1 THEN 1 ELSE 32, 86))])
      [] k = 6 -> ArrayOf([i \in 1..(WOTSLEN + 2) |-> Raw(Fill(32, 86))])
      [] k = 7 -> <<>>
      [] OTHER -> ArrayOf([i \in 1..WOTSLEN |-> Raw(Fill(32, (k * 31 + i) % 256))])

\* the call recorded in last, the call before it in before
AddressCall(op, in, out) ==
    /\ before.op = "idle"
    /\ last' = [Idle EXCEPT !.op = op, !.in = in, !.out = out]
    /\ before' = last
    /\ UNCHANGED <<calc, wallet, mem>>

\* WotsAddress.addrFromWots(wots)
AddrFromWots ==
    \E k \in 1..NPk : AddressCall("addrFromWots", <<PkSample(k)>>, addrFromWots(PkSample(k)))

\* WotsAddress.addrHashGenerate(input)
AddrHashGenerate ==
    \E k \in 1..NPk :
        AddressCall("addrHashGenerate", <<PkSample(k)>>, addrHashGenerate(PkSample(k)))

\* WotsAddress.addrFromImplicit(tag)
AddrFromImplicit ==
    \E k \in 2..NV3Tag :
        AddressCall("addrFromImplicit", <<V3TagSample(k)>>, addrFromImplicit(V3TagSample(k)))

NextAddress == AddrFromWots \/ AddrHashGenerate \/ AddrFromImplicit

SpecAddress == InitGen /\ [][NextAddress]_vars

-----------------------------------------------------------------------------
(* ByteBuffer byte by byte.  mem.arrays are the Uint8Arrays in order of     *)
(* creation, a reference is an index into it; held tells that the caller    *)
(* has the reference.  mem.bb is the ByteBuffer, mem.ops counts the calls.  *)

Bytes(m, r) == m.arrays[r].bytes

\* this.buf
Buf(m) == m.arrays[m.bb.buf].bytes

\* a call that returned val / threw e, and the memory it leaves
Ok(m, val) == [err |-> "", val |-> val, mem |-> m]
Throw(m, e) == [err |-> e, val |-> Null, mem |-> m]

\* new Uint8Array(...)
Uint8Array_new(m, bytes, held) ==
    [m EXCEPT !.arrays = Append(@, [bytes |-> bytes, held |-> held])]

\* dst.set(src, at)
SetBytes(dst, src, at) ==
    ArrayOf([i \in 1..Len(dst) |-> IF i > at /\ i <= at + Len(src) THEN src[i - at] ELSE dst[i]])

\* constructor(capacity)
ByteBuffer_new(m, capacity) ==
    [Uint8Array_new(m, Zeros(capacity), FALSE) EXCEPT
        !.bb = [buf |-> Len(m.arrays) + 1, pos |-> 0, byteOrder |-> BIG_ENDIAN]]

ByteBuffer_allocate(m, capacity) == ByteBuffer_new(m, capacity)

\* wrap keeping the caller's array as the buffer's
ByteBuffer_wrap_shared(m, a) ==
    [m EXCEPT !.bb = [buf |-> a, pos |-> 0, byteOrder |-> BIG_ENDIAN]]

ByteBuffer_wrap(m, a) ==
    [ByteBuffer_new(m, Len(Bytes(m, a))) EXCEPT
        !.arrays[Len(m.arrays) + 1].bytes = SetBytes(@, Bytes(m, a), 0)]

ByteBuffer_order(m, o) == Ok([m EXCEPT !.bb.byteOrder = o], "this")

\* position()
ByteBuffer_getPosition(m) == Ok(m, m.bb.pos)

\* position(newPosition)
ByteBuffer_position(m, newPosition) ==
    IF newPosition < 0 \/ newPosition > Len(Buf(m))
    THEN Throw(m, "Invalid position")
    ELSE Ok([m EXCEPT !.bb.pos = newPosition], "this")

ByteBuffer_capacity(m) == Ok(m, Len(Buf(m)))

\* put(input: number)
ByteBuffer_put(m, input) ==
    IF m.bb.pos >= Len(Buf(m))
    THEN Throw(m, "Buffer overflow")
    ELSE Ok([m EXCEPT !.arrays[m.bb.buf].bytes[m.bb.pos + 1] = input % 256,
                      !.bb.pos = @ + 1], "this")

\* put(input: Uint8Array, ...) from srcOffset and srcLength on
ByteBuffer_putFrom(m, input, srcOffset, srcLength) ==
    IF srcOffset < 0 \/ srcOffset > Len(input) THEN Throw(m, "Invalid offset")
    ELSE IF srcLength < 0 \/ srcOffset + srcLength > Len(input) THEN Throw(m, "Invalid length")
    ELSE IF m.bb.pos + srcLength > Len(Buf(m)) THEN Throw(m, "Buffer overflow")
    ELSE Ok([m EXCEPT !.arrays[m.bb.buf].bytes =
                          SetBytes(@, SubSeq(input, srcOffset + 1, srcOffset + srcLength),
                                   m.bb.pos),
                      !.bb.pos = @ + srcLength], "this")

\* put(input: Uint8Array, offset?, length?): <<>> is an argument not given
ByteBuffer_putArray(m, a, offset, length) ==
    ByteBuffer_putFrom(m, Bytes(m, a),
                       IF offset = <<>> THEN 0 ELSE offset[1],
                       IF length = <<>> \/ length = <<0>> THEN Len(Bytes(m, a)) ELSE length[1])

\* putInt testing only that one byte is left
ByteBuffer_putInt_oneLeft(m, value) ==
    IF m.bb.pos >= Len(Buf(m))
    THEN Throw(m, "Buffer overflow")
    ELSE Ok([m EXCEPT !.arrays[m.bb.buf].bytes =
                          SetBytes(@, IntBytes(value, m.bb.byteOrder), m.bb.pos),
                      !.bb.pos = @ + 4], "this")

ByteBuffer_putInt(m, value) ==
    IF m.bb.pos + 4 > Len(Buf(m))
    THEN Throw(m, "Buffer overflow")
    ELSE Ok([m EXCEPT !.arrays[m.bb.buf].bytes =
                          SetBytes(@, IntBytes(value, m.bb.byteOrder), m.bb.pos),
                      !.bb.pos = @ + 4], "this")

\* get(dst)
ByteBuffer_get(m, dst) ==
    IF m.bb.pos + Len(Bytes(m, dst)) > Len(Buf(m))
    THEN Throw(m, "Buffer underflow")
    ELSE Ok([m EXCEPT !.arrays[dst].bytes =
                          SubSeq(Buf(m), m.bb.pos + 1, m.bb.pos + Len(Bytes(m, dst))),
                      !.bb.pos = @ + Len(Bytes(m, dst))], "this")

ByteBuffer_get_(m) ==
    IF m.bb.pos >= Len(Buf(m))
    THEN Throw(m, "Buffer underflow")
    ELSE Ok([m EXCEPT !.bb.pos = @ + 1], Buf(m)[m.bb.pos + 1])

ByteBuffer_array(m) == Ok(Uint8Array_new(m, Buf(m), TRUE), Len(m.arrays) + 1)

ByteBuffer_rewind(m) == Ok([m EXCEPT !.bb.pos = 0], "this")

\* the references the caller has
Held(m) == {r \in 1..Len(m.arrays) : m.arrays[r].held}

-----------------------------------------------------------------------------
(* A caller with two arrays makes a ByteBuffer, then up to MaxOps calls.    *)

MaxOps == 3
MaxArrays == 4
NCap == 2
NPos == 5
NByte == 1
NInt == 1
NPut == 5

CapSample(k) == IF k = 1 THEN 8 ELSE k + 1

\* -1, 0, capacity, capacity + 1, then inside
PosSample(k, capacity) ==
    CASE k = 1 -> -1
      [] k = 2 -> capacity + 1
      [] k = 3 -> capacity
      [] k = 4 -> 0
      [] OTHER -> (k + 1) % (capacity + 1)

ByteSample(k) == IF k = 1 THEN 42 ELSE 256 + 85 + k

IntSample(k) == IF k = 1 THEN 305419896 ELSE 0 - k

\* offset and length of put(array, offset, length)
PutSample(k) ==
    CASE k = 1 -> <<<<>>, <<>>>>
      [] k = 2 -> <<<<1>>, <<3>>>>
      [] k = 3 -> <<<<0>>, <<0>>>>
      [] k = 4 -> <<<<6>>, <<>>>>
      [] k = 5 -> <<<<1>>, <<>>>>
      [] OTHER -> <<<<2>>, <<k - 5>>>>

InitBuffer ==
    /\ calc = NoCalc
    /\ wallet = NoWallet
    /\ last = Idle
    /\ before = Idle
    /\ mem = [NoMem EXCEPT !.arrays = <<[bytes |-> <<42, 43, 44, 45, 46>>, held |-> TRUE],
                                        [bytes |-> <<0, 0, 0>>, held |-> TRUE]>>]

\* the first call makes the buffer
MakeBuffer(op, in, m) ==
    /\ mem.bb.buf = 0
    /\ last' = [Idle EXCEPT !.op = op, !.in = in]
    /\ mem' = m
    /\ UNCHANGED <<calc, wallet, before>>

HasBuffer == mem.bb.buf # 0

\* a call on the buffer that returned or threw r
BufferCall(op, in, r) ==
    /\ mem.ops < MaxOps
    /\ last' = [Idle EXCEPT !.op = op, !.in = in, !.out = r.val, !.err = r.err]
    /\ mem' = [r.mem EXCEPT !.ops = @ + 1]
    /\ UNCHANGED <<calc, wallet, before>>

Allocate == \E k \in 1..NCap : MakeBuffer("allocate", <<CapSample(k)>>,
                                          ByteBuffer_allocate(mem, CapSample(k)))

Wrap == \E a \in Held(mem) : MakeBuffer("wrap", <<a>>, ByteBuffer_wrap(mem, a))

Order ==
    /\ HasBuffer
    /\ \E o \in {BIG_ENDIAN, LITTLE_ENDIAN} : BufferCall("order", <<o>>, ByteBuffer_order(mem, o))

GetPosition ==
    /\ HasBuffer
    /\ BufferCall("position()", <<>>, ByteBuffer_getPosition(mem))

Position ==
    /\ HasBuffer
    /\ \E k \in 1..NPos : \E i \in {PosSample(k, Len(Buf(mem)))} :
        BufferCall("position", <<i>>, ByteBuffer_position(mem, i))

Capacity ==
    /\ HasBuffer
    /\ BufferCall("capacity", <<>>, ByteBuffer_capacity(mem))

Put ==
    /\ HasBuffer
    /\ \E k \in 1..NByte : BufferCall("put", <<ByteSample(k)>>, ByteBuffer_put(mem, ByteSample(k)))

PutArray ==
    /\ HasBuffer
    /\ \E k \in 1..NPut : \E p \in {PutSample(k)} :
        BufferCall("putArray", <<1, p[1], p[2]>>, ByteBuffer_putArray(mem, 1, p[1], p[2]))

PutInt ==
    /\ HasBuffer
    /\ \E k \in 1..NInt : BufferCall("putInt", <<IntSample(k)>>, ByteBuffer_putInt(mem, IntSample(k)))

Get ==
    /\ HasBuffer
    /\ \E dst \in Held(mem) : BufferCall("get", <<dst>>, ByteBuffer_get(mem, dst))

Get_ ==
    /\ HasBuffer
    /\ BufferCall("get_", <<>>, ByteBuffer_get_(mem))

Array ==
    /\ HasBuffer
    /\ Len(mem.arrays) < MaxArrays
    /\ BufferCall("array", <<>>, ByteBuffer_array(mem))

Rewind ==
    /\ HasBuffer
    /\ BufferCall("rewind", <<>>, ByteBuffer_rewind(mem))

\* the caller writes 0x77 to the first byte of an array it has
Write ==
    /\ HasBuffer
    /\ \E a \in Held(mem) :
        /\ Len(Bytes(mem, a)) > 0
        /\ BufferCall("write", <<a>>, Ok([mem EXCEPT !.arrays[a].bytes[1] = 119], Null))

NextBuffer ==
    \/ Allocate \/ Wrap \/ Order \/ GetPosition \/ Position \/ Capacity \/ Put \/ PutArray
    \/ PutInt \/ Get \/ Get_ \/ Array \/ Rewind \/ Write

SpecBuffer == InitBuffer /\ [][NextBuffer]_vars

\* what put(array, offset, length) of the last call was asked to transfer:
\* length bytes, the whole array when no length or 0 is given
AskedOffset == IF last'.in[2] = <<>> THEN 0 ELSE last'.in[2][1]
AskedLength ==
    IF last'.in[3] = <<>> \/ last'.in[3] = <<0>> THEN Len(Bytes(mem, last'.in[1]))
    ELSE last'.in[3][1]
AskedInRange ==
    /\ AskedOffset >= 0 /\ AskedOffset <= Len(Bytes(mem, last'.in[1]))
    /\ AskedLength >= 0 /\ AskedOffset + AskedLength <= Len(Bytes(mem, last'.in[1]))

\* the bytes the last call has to move: into the buffer at the cursor for
\* put and putInt, out of it for get and get_
Transfer ==
    CASE last'.op = "put" -> <<last'.in[1] % 256>>
      [] last'.op = "putInt" ->
            IF mem.bb.byteOrder = BIG_ENDIAN
            THEN <<(last'.in[1] \div 16777216) % 256, (last'.in[1] \div 65536) % 256,
                   (last'.in[1] \div 256) % 256, last'.in[1] % 256>>
            ELSE <<last'.in[1] % 256, (last'.in[1] \div 256) % 256,
                   (last'.in[1] \div 65536) % 256, (last'.in[1] \div 16777216) % 256>>
      [] last'.op = "putArray" ->
            SubSeq(Bytes(mem, last'.in[1]), AskedOffset + 1, AskedOffset + AskedLength)
      [] last'.op = "get" ->
            SubSeq(Buf(mem) \o Bytes(mem, last'.in[1]), mem.bb.pos + 1,
                   mem.bb.pos + Len(Bytes(mem, last'.in[1])))
      [] last'.op = "get_" -> SubSeq(Buf(mem) \o <<0>>, mem.bb.pos + 1, mem.bb.pos + 1)

Crosses == mem.bb.pos + Len(Transfer) > Len(Buf(mem))

\* one call on the buffer, cursor and contents before and after it
CursorStep ==
    /\ mem'.bb.buf = mem.bb.buf
    /\ Len(Buf(mem')) = Len(Buf(mem))
    /\ last'.err # "" => mem'.bb = mem.bb /\ mem'.arrays = mem.arrays
    /\ last'.op = "position" =>
          /\ last'.err = "" <=> (0 <= last'.in[1] /\ last'.in[1] <= Len(Buf(mem)))
          /\ last'.err = "" => mem'.bb.pos = last'.in[1]
    /\ last'.op \in {"put", "putInt"} \/ (last'.op = "putArray" /\ AskedInRange) =>
          IF Crosses
          THEN last'.err = "Buffer overflow"
          ELSE /\ last'.err = ""
               /\ mem'.bb.pos = mem.bb.pos + Len(Transfer)
               /\ Buf(mem') = SubSeq(Buf(mem), 1, mem.bb.pos) \o Transfer
                                \o SubSeq(Buf(mem), mem'.bb.pos + 1, Len(Buf(mem)))
    /\ last'.op \in {"get", "get_"} =>
          IF Crosses
          THEN last'.err = "Buffer underflow"
          ELSE /\ last'.err = ""
               /\ mem'.bb.pos = mem.bb.pos + Len(Transfer)
               /\ Buf(mem') = Buf(mem)
               /\ last'.op = "get" => Bytes(mem', last'.in[1]) = Transfer
               /\ last'.op = "get_" => <<last'.out>> = Transfer

\* C16: through every sequence of ByteBuffer calls, failing ones included,
\* 0 <= position <= capacity and the capacity stays; position(i) succeeds
\* exactly for 0 <= i <= capacity; a successful put / putInt / get / get_
\* moves the cursor by the number of bytes it transfers; a call that would
\* cross the capacity fails with overflow (writes) or underflow (reads) and
\* leaves cursor and contents as they were
C16_CursorInCapacity ==
    [][/\ mem'.bb.buf # 0 => 0 <= mem'.bb.pos /\ mem'.bb.pos <= Len(Buf(mem'))
       /\ mem.bb.buf # 0 => CursorStep]_vars

\* putInt fails with overflow two bytes before the end of a buffer of 5
C16_Witness ==
    /\ last.op = "putInt" /\ last.err = "Buffer overflow"
    /\ mem.bb.pos = 3 /\ Len(Buf(mem)) = 5 /\ Buf(mem)[1] = 42

\* the caller's arrays and the buffer's array are different arrays, and the
\* array a call of array() returns is a new one
OwnStorage ==
    /\ ~mem'.arrays[mem'.bb.buf].held
    /\ last'.op = "wrap" =>
          /\ mem'.bb.buf # last'.in[1]
          /\ Buf(mem') = Bytes(mem, last'.in[1])
          /\ Bytes(mem', last'.in[1]) = Bytes(mem, last'.in[1])
    /\ last'.op = "write" => mem'.bb = mem.bb /\ Buf(mem') = Buf(mem)
    /\ last'.op \in {"put", "putInt", "putArray", "order", "position", "rewind"} =>
          \A r \in Held(mem) : Bytes(mem', r) = Bytes(mem, r)
    /\ last'.op = "array" =>
          /\ last'.out \notin 1..Len(mem.arrays)
          /\ last'.out \in Held(mem')
          /\ Bytes(mem', last'.out) = Buf(mem)
          /\ mem'.bb = mem.bb /\ Buf(mem') = Buf(mem)

\* C17: a ByteBuffer shares no storage with its callers: after wrap(a)
\* writes to a leave the buffer as it was and writes to the buffer leave a
\* as it was, and array() returns a fresh copy whose mutation changes
\* neither the buffer's contents nor its cursor
C17_NoSharedStorage == [][mem'.bb.buf # 0 => OwnStorage]_vars

\* the caller wrapped its array a, put an integer, took array() and wrote
\* to that copy: a, the buffer and the copy now differ
C17_Witness ==
    /\ last.op = "write" /\ mem.bb.buf = 3 /\ last.in[1] = 4
    /\ Bytes(mem, 1) = <<42, 43, 44, 45, 46>>
    /\ Buf(mem) = <<18, 52, 86, 120, 46>>
    /\ Bytes(mem, 4) = <<119, 52, 86, 120, 46>>

-----------------------------------------------------------------------------
(* MochimoHasher as an object.  The @noble/hashes hasher absorbs the bytes  *)
(* of every update; its digest is the term naming all of them.  mem.passed  *)
(* are the chunks the caller passed since the last digest.                  *)

\* createHasher(algorithm): [err, val]
createHasher(algorithm) ==
    IF algorithm \in {"sha256", "sha3-512", "ripemd160"}
    THEN [err |-> "", val |-> <<>>]
    ELSE [err |-> "Unsupported hash algorithm", val |-> Null]

\* new MochimoHasher(algorithm)
MochimoHasher_new(m, algorithm) ==
    IF createHasher(algorithm).err # ""
    THEN Throw(m, createHasher(algorithm).err)
    ELSE Ok([m EXCEPT !.hasher = [algorithm |-> algorithm,
                                  hasher |-> createHasher(algorithm).val]], "this")

\* update(buffer, offset, length) once the defaults are in
MochimoHasher_updateFrom(m, buffer, offset, length) ==
    IF offset < 0 \/ offset > Len(buffer) THEN Throw(m, "Invalid offset")
    ELSE IF length < 0 \/ offset + length > Len(buffer) THEN Throw(m, "Invalid length")
    ELSE Ok([m EXCEPT !.hasher.hasher = @ \o SubSeq(buffer, offset + 1, offset + length)],
            <<"undefined">>)

\* update(buffer, offset = 0, length = buffer.length): <<>> is an argument not given
MochimoHasher_update(m, buffer, offset, length) ==
    MochimoHasher_updateFrom(m, buffer, IF offset = <<>> THEN 0 ELSE offset[1],
                             IF length = <<>> THEN Len(buffer) ELSE length[1])

\* digest() keeping the hasher it has
MochimoHasher_digest_kept(m) ==
    Ok(m, <<m.hasher.algorithm, <<Raw(m.hasher.hasher)>>>>)

\* digest(): the hash of what was absorbed, then a new hasher
MochimoHasher_digest(m) ==
    Ok([m EXCEPT !.hasher.hasher = createHasher(m.hasher.algorithm).val],
       <<m.hasher.algorithm, <<Raw(m.hasher.hasher)>>>>)

MaxCalls == 6
NAlgorithm == 4
NChunk == 6

AlgorithmSample(k) ==
    CASE k = 1 -> "sha256"
      [] k = 2 -> "sha3-512"
      [] k = 3 -> "ripemd160"
      [] k = 4 -> "md5"
      [] OTHER -> "sha512"

\* buffer, offset and length of an update
ChunkSample(k) ==
    CASE k = 1 -> <<<<18, 52>>, <<>>, <<>>>>
      [] k = 2 -> <<<<86, 120>>, <<>>, <<>>>>
      [] k = 3 -> <<<<>>, <<>>, <<>>>>
      [] k = 4 -> <<<<18, 52, 86, 120>>, <<>>, <<>>>>
      [] k = 5 -> <<<<18, 52, 86, 120>>, <<2>>, <<2>>>>
      [] k = 6 -> <<<<18, 52, 86, 120>>, <<1>>, <<4>>>>
      [] OTHER -> <<<<18, 52, 86, 120>>, <<0>>, <<k - 6>>>>

\* the bytes of the chunks one after the other
RECURSIVE ConcatTo(_, _)
ConcatTo(chunks, n) == IF n = 0 THEN <<>> ELSE ConcatTo(chunks, n - 1) \o chunks[n]
Concat(chunks) == ConcatTo(chunks, Len(chunks))

\* one call on the hasher; before keeps the last digest
HasherCall(op, in, r, passed) ==
    /\ mem.ops < MaxCalls
    /\ last' = [Idle EXCEPT !.op = op, !.in = in, !.out = r.val, !.err = r.err]
    /\ before' = IF last.op = "digest" THEN last ELSE before
    /\ mem' = [r.mem EXCEPT !.ops = @ + 1, !.passed = passed]
    /\ UNCHANGED <<calc, wallet>>

NewHasher ==
    /\ mem.hasher.algorithm = ""
    /\ \E k \in 1..NAlgorithm :
           HasherCall("new", <<AlgorithmSample(k)>>, MochimoHasher_new(mem, AlgorithmSample(k)),
                      <<>>)

Update ==
    /\ mem.hasher.algorithm # ""
    /\ \E k \in 1..NChunk : \E c \in {ChunkSample(k)} :
         \E r \in {MochimoHasher_update(mem, c[1], c[2], c[3])} :
           HasherCall("update", c, r,
                      IF r.err # "" THEN mem.passed
                      ELSE Append(mem.passed,
                                  SubSeq(c[1], (IF c[2] = <<>> THEN 0 ELSE c[2][1]) + 1,
                                         (IF c[2] = <<>> THEN 0 ELSE c[2][1])
                                         + (IF c[3] = <<>> THEN Len(c[1]) ELSE c[3][1]))))

Digest ==
    /\ mem.hasher.algorithm # ""
    /\ HasherCall("digest", <<mem.passed>>, MochimoHasher_digest(mem), <<>>)

NextHasher == NewHasher \/ Update \/ Digest

SpecHasher == InitGen /\ [][NextHasher]_vars

\* C18: every digest() is the one-shot hash of the bytes passed to update
\* since the digest before it, however they were split into chunks; a
\* digest() right after a digest() is the hash of no bytes
C18_DigestOfUpdates ==
    last.op = "digest" =>
        /\ last.err = ""
        /\ last.out = hashWith(mem.hasher.algorithm, <<Raw(Concat(last.in[1]))>>)
        /\ mem.hasher.algorithm = "sha256" => last.out = hash(Raw(Concat(last.in[1])))
        /\ before.op = "digest" /\ Concat(before.in[1]) = Concat(last.in[1]) =>
              before.out = last.out
        /\ before.op = "digest" /\ Concat(before.in[1]) # Concat(last.in[1]) =>
              before.out # last.out
        /\ last.in[1] = <<>> => last.out = hashWith(mem.hasher.algorithm, <<Raw(<<>>)>>)

\* two digests of the same four bytes, passed in one chunk and then in two
C18_Witness ==
    /\ last.op = "digest" /\ before.op = "digest"
    /\ before.in[1] = << <<18, 52, 86, 120>> >>
    /\ last.in[1] = << <<18, 52>>, <<86, 120>> >>
    /\ last.out = before.out

-----------------------------------------------------------------------------
(* clear() on the wallet of protocol/transaction.ts *)

AllZero(bytes) == \A i \in 0..(ByteLen(bytes) - 1) : Slice(bytes, i, i + 1) = <<"raw", <<0>>>>

\* what the getters of a cleared wallet are to return
Cleared(w) ==
    /\ ByteLen(WalletV3_getSecret(w)) = 32 /\ AllZero(WalletV3_getSecret(w))
    /\ ArrLen(WalletV3_getWots(w)) = 2208
    /\ \A i \in 1..Len(WalletV3_getWots(w)) : AllZero(WalletV3_getWots(w)[i])
    /\ ByteLen(WalletV3_getAddrTag(w)) = 20 /\ AllZero(WalletV3_getAddrTag(w))
    /\ \A i \in 1..WOTSLEN : AllZero(WalletV3_getWotsPk(w)[i])
    /\ AllZero(WalletV3_getWotsPubSeed(w))
    /\ AllZero(WalletV3_getWotsAdrs(w))
    /\ WalletV3_getWotsHex(w) = Null
    /\ WalletV3_getAddrTagHex(w) = Null
    /\ WalletV3_getAddress(w) = Null
    /\ WalletV3_getAddrHash(w) = [err |-> "", val |-> Null]

\* C19: a v3 wallet created with a 32-byte secret, cleared once or twice,
\* returns zeros of length 32, 2208 and 20 for secret, wots and address
\* tag, zeros for public key, public seed and address seed, and null for
\* the hex strings, the address and the address hash
C19_ClearZeroes ==
    (/\ last.op = "createV3"
     /\ ByteLen(last.in[2]) = 32
     /\ (last.in[3] = Null \/ ByteLen(last.in[3]) = 20))
        => /\ last.err = ""
           /\ Cleared(WalletV3_clear(last.out))
           /\ Cleared(WalletV3_clear(WalletV3_clear(last.out)))

-----------------------------------------------------------------------------
(* The wallet of protocol/wallet.ts with its arrays by reference: the       *)
(* caller has a secret and a tag in mem.arrays, the wallet's fields         *)
(* address, tag and secret are references, 0 for null.                      *)

MaxOwned == 3

\* the wallet with the contents of its arrays in place of the references
WalletRef_deref(m, w) ==
    [name |-> w.name,
     address |-> IF w.address = 0 THEN Null ELSE Bytes(m, w.address),
     tag |-> IF w.tag = 0 THEN Null ELSE Bytes(m, w.tag),
     secret |-> IF w.secret = 0 THEN Null ELSE Bytes(m, w.secret)]

\* the constructor: the references as they are passed, the hex strings
WalletRef_new(m, name, address, tag, secret) ==
    [name |-> name, address |-> address, tag |-> tag, secret |-> secret,
     addressHex |-> IF address = 0 THEN Null ELSE bytesToHex(Bytes(m, address)),
     tagHex |-> IF tag = 0 THEN Null ELSE bytesToHex(Bytes(m, tag))]

\* WOTSWallet.create(name, secret, tag) on references: sourcePK and
\* private_seed are new arrays, tag is the caller's
WalletRef_create(m, name, secret, tag, draws) ==
    The({IF r.err # "" THEN [err |-> r.err, val |-> Null, mem |-> m]
         ELSE The({[err |-> "", mem |-> n,
                    val |-> WalletRef_new(n, name, Len(m.arrays) + 1, tag, Len(m.arrays) + 2)] :
                      n \in {Uint8Array_new(Uint8Array_new(m, r.val.address, FALSE),
                                            r.val.secret, FALSE)}}) :
            r \in {Wallet_create(name, Bytes(m, secret),
                                 IF tag = 0 THEN Null ELSE Bytes(m, tag), draws)}})

\* clear(): [mem, val], val the wallet it leaves
WalletRef_clear(m, w) ==
    [mem |-> [m EXCEPT !.arrays =
                 ArrayOf([r \in 1..Len(m.arrays) |->
                             IF r = w.secret \/ r = w.tag
                             THEN [m.arrays[r] EXCEPT !.bytes = ByteUtils_clear(@)]
                             ELSE IF r = w.address
                             THEN [m.arrays[r] EXCEPT !.bytes = ByteUtils_clearAll(@)]
                             ELSE m.arrays[r]])],
     val |-> [w EXCEPT !.tagHex = Null, !.addressHex = Null]]

\* what the caller sees of the wallet: the getters, a signature, its check
Observed(m, w) ==
    <<w.name, WalletRef_deref(m, w).address, w.addressHex, WalletRef_deref(m, w).tag,
      w.tagHex, WalletRef_deref(m, w).secret,
      Wallet_sign(WalletRef_deref(m, w), MsgSample(1)),
      Wallet_verify(WalletRef_deref(m, w), MsgSample(1),
                    Wallet_sign(WalletRef_deref(m, w), MsgSample(1)).val)>>

\* the caller's secret is array 1, its tag array 2 when it has one
InitOwned ==
    /\ calc = NoCalc
    /\ wallet = NoWallet
    /\ last = Idle
    /\ before = Idle
    /\ \E s \in 1..NSecret, t \in 1..NTag :
           mem = [NoMem EXCEPT !.arrays =
                     <<[bytes |-> SecretSample(s), held |-> TRUE]>>
                     \o IF TagSample(t) = Null THEN <<>>
                        ELSE <<[bytes |-> TagSample(t), held |-> TRUE]>>]

\* the reference of the caller's tag, 0 for null
CallerTag == IF Len(mem.arrays) > 1 THEN 2 ELSE 0

CreateOwned ==
    /\ last.op = "idle"
    /\ \E d \in 1..NDraws :
         \E r \in {WalletRef_create(mem, NameSample, 1, CallerTag, DrawsSample(d))} :
           /\ last' = [Idle EXCEPT !.op = "create", !.in = <<NameSample, 1, CallerTag>>,
                                   !.rnd = <<d>>, !.err = r.err]
           /\ wallet' = r.val
           /\ mem' = r.mem
    /\ UNCHANGED <<calc, before>>

\* a call after create returned
HasWallet == last.op # "idle" /\ last.err = "" /\ mem.ops < MaxOwned

ClearOwned ==
    /\ HasWallet
    /\ \E r \in {WalletRef_clear(mem, wallet)} :
           /\ last' = [Idle EXCEPT !.op = "clear"]
           /\ wallet' = r.val
           /\ mem' = [r.mem EXCEPT !.ops = @ + 1]
    /\ UNCHANGED <<calc, before>>

\* the caller inverts a bit of the first byte of an array it has
Mutate ==
    /\ HasWallet
    /\ \E a \in Held(mem) :
           /\ last' = [Idle EXCEPT !.op = "mutate", !.in = <<a>>]
           /\ mem' = [mem EXCEPT !.arrays[a].bytes = FlipMsg(@, 1), !.ops = @ + 1]
    /\ UNCHANGED <<calc, wallet, before>>

\* the getters, sign and verify
Observe ==
    /\ HasWallet
    /\ last' = [Idle EXCEPT !.op = "observe", !.out = Observed(mem, wallet)]
    /\ mem' = [mem EXCEPT !.ops = @ + 1]
    /\ UNCHANGED <<calc, wallet, before>>

NextOwned == CreateOwned \/ ClearOwned \/ Mutate \/ Observe

SpecOwned == InitOwned /\ [][NextOwned]_vars

\* C20: the wallet has copies of its own: clear() leaves the arrays the
\* caller passed to create as they were, and a caller writing to them
\* after create changes nothing the getters, sign and verify return
C20_OwnsCopies ==
    [][/\ last'.op = "clear" => \A r \in Held(mem) : Bytes(mem', r) = Bytes(mem, r)
       /\ last'.op = "mutate" => Observed(mem', wallet') = Observed(mem, wallet)]_vars

-----------------------------------------------------------------------------
(* The WOTS functions on the caller's arrays.  mem.arrays are the arrays  *)
(* by reference: 1 msg, 2 seed, 3 pub_seed, 4 addr, 5 pk, 6 sig, then the  *)
(* arrays the calls make.  An array of input bytes is a sequence of bytes, *)
(* a pk or signature array its sequence of 32-byte chunks.                 *)

MaxFrameCalls == 3
NFrameInput == 6

\* the buffer's bytes after the putInt calls that left the fields of addr
AddrFields(bytes, addr) ==
    SetBytes(SetBytes(SetBytes(bytes, BytesOf(addr.w[1]), 20), BytesOf(addr.w[2]), 24),
             BytesOf(addr.w[3]), 28)

\* WOTS.wots_pkgen(pk, seed, pub_seed, offset, addr) on references
WOTS_wots_pkgen(m, pk, seed, pub_seed, offset, addr) ==
    The({The({[b EXCEPT !.arrays[pk].bytes = st.arr,
                        !.arrays[b.bb.buf].bytes = AddrFields(@, st.addr)] :
              st \in {chains_from_seed(
                         [i |-> 0, arr |-> expand_seed(Raw(Bytes(m, seed))),
                          addr |-> order(wrap(Raw(Buf(b))), LITTLE_ENDIAN),
                          steps |-> ArrayOf([i \in 1..WOTSLEN |-> WOTSW - 1]),
                          pub_seed |-> Slice(Raw(Bytes(m, pub_seed)), offset,
                                             Len(Bytes(m, pub_seed)))],
                         WOTSLEN)}}) :
         b \in {ByteBuffer_wrap(m, addr)}})

\* WOTS.wots_sign(sig, msg, seed, pub_seed, offset, addr) on references
WOTS_wots_sign(m, sig, msg, seed, pub_seed, offset, addr) ==
    The({The({[b EXCEPT !.arrays[sig].bytes = st.arr,
                        !.arrays[b.bb.buf].bytes = AddrFields(@, st.addr)] :
              st \in {chains_from_seed(
                         [i |-> 0, arr |-> expand_seed(Raw(Bytes(m, seed))),
                          addr |-> order(wrap(Raw(Buf(b))), LITTLE_ENDIAN),
                          steps |-> chain_lengths(Raw(Bytes(m, msg)), EmptyLengths),
                          pub_seed |-> Slice(Raw(Bytes(m, pub_seed)), offset,
                                             Len(Bytes(m, pub_seed)))],
                         WOTSLEN)}}) :
         b \in {ByteBuffer_wrap(m, addr)}})

\* WOTS.wots_pk_from_sig(signature, msg, pub_seed, addr) on references: pk is
\* a new array, caddr a copy of addr, the buffer wraps caddr
WOTS_wots_pk_from_sig(m, signature, msg, pub_seed, addr) ==
    The({The({[b EXCEPT !.arrays[Len(m.arrays) + 1].bytes = st.arr,
                        !.arrays[b.bb.buf].bytes = AddrFields(@, st.addr)] :
              st \in {chains_from_sig(
                         [i |-> 0, arr |-> ArrayOf([i \in 1..WOTSLEN |-> Pad32(0)]),
                          addr |-> order(wrap(Raw(Buf(b))), LITTLE_ENDIAN),
                          signature |-> Bytes(m, signature),
                          lengths |-> chain_lengths(Raw(Bytes(m, msg)), EmptyLengths),
                          pub_seed |-> Raw(Bytes(m, pub_seed))],
                         WOTSLEN)}}) :
         b \in {ByteBuffer_wrap(Uint8Array_new(Uint8Array_new(m, <<>>, TRUE),
                                               Bytes(m, addr), FALSE),
                                Len(m.arrays) + 2)}})

\* the caller's arrays before any call
InitFrame ==
    /\ calc = NoCalc
    /\ wallet = NoWallet
    /\ last = Idle
    /\ before = Idle
    /\ \E k \in 1..NFrameInput :
           mem = [NoMem EXCEPT !.arrays =
                      <<[bytes |-> BytesOf(MsgSample(k)), held |-> TRUE],
                        [bytes |-> BytesOf(SeedSample(1 + (k % 2))), held |-> TRUE],
                        [bytes |-> BytesOf(PubSeedSample(1 + (k % 2))), held |-> TRUE],
                        [bytes |-> BytesOf(AddrSample(1 + ((k \div 2) % 3))), held |-> TRUE],
                        [bytes |-> <<>>, held |-> TRUE],
                        [bytes |-> <<>>, held |-> TRUE]>>]

FramePkgen ==
    /\ mem.ops < MaxFrameCalls
    /\ mem' = [WOTS_wots_pkgen(mem, 5, 2, 3, 0, 4) EXCEPT !.ops = @ + 1]
    /\ last' = [Idle EXCEPT !.op = "wots_pkgen"]
    /\ UNCHANGED <<calc, wallet, before>>

FrameSign ==
    /\ mem.ops < MaxFrameCalls
    /\ mem' = [WOTS_wots_sign(mem, 6, 1, 2, 3, 0, 4) EXCEPT !.ops = @ + 1]
    /\ last' = [Idle EXCEPT !.op = "wots_sign"]
    /\ UNCHANGED <<calc, wallet, before>>

\* pk = WOTS.wots_pk_from_sig(sig, msg, pub_seed, addr)
FramePkFromSig ==
    /\ mem.ops < MaxFrameCalls
    /\ mem.arrays[6].bytes # <<>>
    /\ mem' = [WOTS_wots_pk_from_sig(mem, 6, 1, 3, 4) EXCEPT !.ops = @ + 1]
    /\ last' = [Idle EXCEPT !.op = "wots_pk_from_sig", !.out = Len(mem.arrays) + 1]
    /\ UNCHANGED <<calc, wallet, before>>

NextFrame == FramePkgen \/ FrameSign \/ FramePkFromSig

SpecFrame == InitFrame /\ [][NextFrame]_vars

\* C21: a call of wots_pkgen, wots_sign or wots_pk_from_sig leaves the
\* caller's addr, msg, seed and pub_seed arrays as they were, and
\* wots_pk_from_sig leaves the signature as it was; the fields it rewrites
\* are those of the array of its own buffer
C21_CallerArraysKept ==
    [][/\ \A r \in 1..4 : mem'.arrays[r] = mem.arrays[r]
       /\ last'.op = "wots_pk_from_sig" => mem'.arrays[6] = mem.arrays[6]
       /\ mem'.bb.buf > 6]_vars

\* pkgen, sign and pk_from_sig have all run; the buffer of the last call is
\* a copy of addr with the chain, hash and keymask fields rewritten, and the
\* recovered pk is the generated one
C21_Witness ==
    /\ mem.ops = 3 /\ last.op = "wots_pk_from_sig"
    /\ Len(mem.arrays[1].bytes) = 32
    /\ SubSeq(Buf(mem), 1, 20) = SubSeq(mem.arrays[4].bytes, 1, 20)
    /\ SubSeq(Buf(mem), 21, 24) = <<66, 0, 0, 0>>
    /\ SubSeq(Buf(mem), 29, 32) = <<1, 0, 0, 0>>
    /\ SubSeq(Buf(mem), 21, 32) # SubSeq(mem.arrays[4].bytes, 21, 32)
    /\ mem.arrays[5].bytes # <<>>
    /\ mem.arrays[last.out].bytes = mem.arrays[5].bytes

-----------------------------------------------------------------------------
(* The SHA-256 invocations of a run.  Every digest the WOTS functions      *)
(* compute ends up in the array they fill: the seed expansion writes its   *)
(* digests there, and each F step hashes its key and its masked input, so  *)
(* the digests an array is made of, counted one per invocation, are the    *)
(* invocations that made it.                                               *)

\* the number of hash invocations a byte string is made of
RECURSIVE Hashes(_)
Hashes(b) ==
    CASE b[1] = "sha256" /\ Len(b[2]) = 3 ->
             1 + Hashes(b[2][1]) + Hashes(b[2][2]) + Hashes(b[2][3])
      [] b[1] = "sha256" /\ Len(b[2]) = 1 -> 1 + Hashes(b[2][1])
      [] b[1] \in {"xor", "cat"} -> Hashes(b[2]) + Hashes(b[3])
      [] b[1] \in {"slice", "rev4", "flip"} -> Hashes(b[2])
      [] b[1] = "buf" -> Hashes(b[2]) + Hashes(b[3]) + Hashes(b[4]) + Hashes(b[5])
      [] OTHER -> 0

\* the hash invocations that made the chunks of arr
ArrayHashes(arr) ==
    SumRange(ArrayOf([i \in 1..Len(arr) |-> Hashes(arr[i])]), 1, Len(arr))

\* the F steps of a signature: the sum of the chain lengths of the message
SignSteps(msg) == SumRange(chain_lengths(msg, EmptyLengths), 1, WOTSLEN)

\* C22 as stated: a wots_sign or a wots_pk_from_sig call makes at most
\* 67 * 15 = 1005 SHA-256 invocations
C22_AtMost1005Hashes ==
    /\ calc.sig # <<>> => ArrayHashes(calc.sig) <= WOTSLEN * (WOTSW - 1)
    /\ calc.vpk # <<>> =>
           ArrayHashes(calc.vpk) - ArrayHashes(calc.sig) <= WOTSLEN * (WOTSW - 1)

\* C22 amended: a wots_sign or a wots_pk_from_sig call ends after at most
\* 67 * 15 = 1005 F steps, each of three SHA-256 invocations (key, mask and
\* F): signing makes 67 invocations for the seed expansion and three for each
\* of its L[0] + ... + L[66] steps, verifying three for each of the
\* 1005 - (L[0] + ... + L[66]) remaining steps
C22_ThreeHashesAStep ==
    /\ calc.sig # <<>> =>
           /\ ArrayHashes(calc.sig) = WOTSLEN + 3 * SignSteps(calc.msg)
           /\ SignSteps(calc.msg) <= WOTSLEN * (WOTSW - 1)
    /\ calc.vpk # <<>> =>
           /\ ArrayHashes(calc.vpk) - ArrayHashes(calc.sig) =
                  3 * (WOTSLEN * (WOTSW - 1) - SignSteps(calc.msg))
           /\ SignSteps(calc.msg) >= 0

\* the message of 32 bytes 0xff is signed with 67 + 3 * 960 invocations and
\* its signature verified with 3 * 45
C22_Witness ==
    /\ calc.sig # <<>> /\ calc.vpk # <<>>
    /\ calc.msg = Raw(Fill(32, 255))
    /\ ArrayHashes(calc.sig) = 2947
    /\ ArrayHashes(calc.vpk) - ArrayHashes(calc.sig) = 135

-----------------------------------------------------------------------------
(* The default components generator on its own and under generateAddress: *)
(* two calls, each on one of the sampled secrets.                          *)

NComponentsSecret == 5

\* secrets of 32 bytes: 0x12.., 0x92.. (0x12 with the high bit set), 0x12..
\* with a first byte 0x92, 0x34.., then varied bytes
ComponentsSecretSample(k) ==
    CASE k = 1 -> Raw(Fill(32, 18))
      [] k = 2 -> Raw(Fill(32, 146))
      [] k = 3 -> Raw(<<146>> \o Fill(31, 18))
      [] k = 4 -> Raw(Fill(32, 52))
      [] OTHER -> Raw(ArrayOf([i \in 1..32 |-> (k * 53 + i * 17) % 256]))

\* WOTSWallet.componentsGenerator(secret)
ComponentsGenerator ==
    /\ before.op = "idle"
    /\ \E k \in 1..NComponentsSecret :
           last' = [op |-> "componentsGenerator", in |-> <<ComponentsSecretSample(k)>>,
                    rnd |-> <<>>, out |-> componentsGenerator(ComponentsSecretSample(k)),
                    err |-> ""]
    /\ before' = last
    /\ UNCHANGED <<calc, wallet, mem>>

\* WOTS.generateAddress(null, secret, WOTSWallet.componentsGenerator)
ComponentsAddress ==
    /\ before.op = "idle"
    /\ \E k \in 1..NComponentsSecret :
           last' = Call("generateAddress", <<Null, ComponentsSecretSample(k), "default">>,
                        <<1>>,
                        generateAddress(Null, ComponentsSecretSample(k), "default",
                                        DrawsSample(1)))
    /\ before' = last
    /\ UNCHANGED <<calc, wallet, mem>>

NextComponents == ComponentsGenerator \/ ComponentsAddress

SpecComponents == InitGen /\ [][NextComponents]_vars

\* the secret followed by a four-byte literal
SecretAnd(secret, literal) == Raw(BytesOf(secret) \o literal)

\* C23: the default components generator hashes the 32 bytes of the secret
\* unchanged followed by "seed", "publ" and "addr"; two different secrets
\* give different components and different addresses
C23_SecretHashedUnchanged ==
    /\ last.op = "componentsGenerator" =>
           /\ last.out.private_seed = hash(SecretAnd(last.in[1], Lit_seed))
           /\ last.out.public_seed = hash(SecretAnd(last.in[1], Lit_publ))
           /\ last.out.addr_seed = hash(SecretAnd(last.in[1], Lit_addr))
    /\ (last.op = "componentsGenerator" /\ before.op = "componentsGenerator"
            /\ last.in # before.in) =>
           /\ last.out.private_seed # before.out.private_seed
           /\ last.out.public_seed # before.out.public_seed
           /\ last.out.addr_seed # before.out.addr_seed
    /\ (last.op = "generateAddress" /\ before.op = "generateAddress"
            /\ last.err = "" /\ before.err = "" /\ last.in # before.in) =>
           ~areEqual(last.out, before.out)

-----------------------------------------------------------------------------
(* gen_chain round by round, as wots_pkgen, wots_sign and wots_pk_from_sig *)
(* call it for one chain.  calc is the call: caller, chain, start and      *)
(* steps, the loop's st = [i, out, addr, pub_seed], the hash addresses      *)
(* read from the buffer after each round, and whether the loop has ended.   *)

NChain == 4

\* chains 0, 64 and 66, then others
ChainSample(k) ==
    CASE k = 1 -> 0
      [] k = 2 -> 64
      [] k = 3 -> 66
      [] OTHER -> (k * 7) % WOTSLEN

\* the 32-bit little-endian integer in field k of the address buffer
FieldValue(addr, k) ==
    The({b[1] + 256 * b[2] + 65536 * b[3] + 16777216 * b[4] : b \in {BytesOf(addr.w[k])}})

\* the start and steps arguments of the caller's gen_chain call for chain c
ChainStart(caller, lengths, c) == IF caller = "wots_pk_from_sig" THEN lengths[c + 1] ELSE 0

ChainSteps(caller, lengths, c) ==
    CASE caller = "wots_pkgen" -> WOTSW - 1
      [] caller = "wots_sign" -> lengths[c + 1]
      [] caller = "wots_pk_from_sig" -> WOTSW - 1 - lengths[c + 1]

\* the input chunk of the caller's gen_chain call for chain c
ChainInput(caller, msg, seed, pub_seed, addr, c) ==
    IF caller = "wots_pk_from_sig"
    THEN Chunk(wots_sign(msg, seed, pub_seed, 0, addr), c)
    ELSE expand_seed(seed)[c + 1]

\* gen_chain entered: the input copied to out, i = start
ChainCall(caller, msg, seed, pub_seed, addr, c, lengths) ==
    [caller |-> caller, chain |-> c, msg |-> msg, seed |-> seed, addr |-> addr,
     start |-> ChainStart(caller, lengths, c), steps |-> ChainSteps(caller, lengths, c),
     input |-> ChainInput(caller, msg, seed, pub_seed, addr, c),
     st |-> [i |-> ChainStart(caller, lengths, c),
             out |-> Set32(Pad32(0), ChainInput(caller, msg, seed, pub_seed, addr, c)),
             addr |-> setChainAddr(order(wrap(addr), LITTLE_ENDIAN), c),
             pub_seed |-> pub_seed],
     hashAddrs |-> <<>>, returned |-> FALSE]

InitChain ==
    /\ \E m \in 1..NMsg, c \in 1..NChain,
          caller \in {"wots_pkgen", "wots_sign", "wots_pk_from_sig"} :
           calc = ChainCall(caller, MsgSample(m), SeedSample(1), PubSeedSample(1),
                            AddrSample(1 + (m % 2)), ChainSample(c),
                            chain_lengths(MsgSample(m), EmptyLengths))
    /\ wallet = NoWallet
    /\ last = Idle
    /\ before = Idle
    /\ mem = NoMem

\* one round: WOTSHash.setHashAddr(addr, i); WOTSHash.thashF(out, ..., addr)
ChainRound ==
    /\ ~calc.returned
    /\ calc.st.i < calc.start + calc.steps /\ calc.st.i < 16
    /\ calc' = [calc EXCEPT !.st = gen_chain_step(@),
                            !.hashAddrs = Append(@, FieldValue(gen_chain_step(calc.st).addr, 2))]
    /\ UNCHANGED <<wallet, last, before, mem>>

\* the loop condition fails: gen_chain returns
ChainReturn ==
    /\ ~calc.returned
    /\ ~(calc.st.i < calc.start + calc.steps /\ calc.st.i < 16)
    /\ calc' = [calc EXCEPT !.returned = TRUE]
    /\ UNCHANGED <<wallet, last, before, mem>>

NextChain == ChainRound \/ ChainReturn

SpecChain == InitChain /\ [][NextChain]_vars

\* C24: gen_chain applies thashF once for each i = start, start + 1, ... in
\* increasing order with the hash address i, which stays within 0..14; the
\* chain never goes past position 15; when the loop ends it has made exactly
\* steps rounds (the cap at 16 cut nothing) and out is the input walked
\* start .. start + steps - 1, as gen_chain computes it in one call
C24_ChainWalk ==
    /\ calc.st.i = calc.start + Len(calc.hashAddrs)
    /\ calc.st.i <= WOTSW - 1
    /\ \A k \in 1..Len(calc.hashAddrs) :
           calc.hashAddrs[k] = calc.start + k - 1 /\ calc.hashAddrs[k] \in 0..(WOTSW - 2)
    /\ FieldValue(calc.st.addr, 1) = calc.chain
    /\ Len(calc.hashAddrs) = 0 => calc.st.out = calc.input
    /\ calc.returned =>
           /\ Len(calc.hashAddrs) = calc.steps
           /\ calc.start + calc.steps <= WOTSW - 1
           /\ calc.st.out =
                  gen_chain(Pad32(0), calc.input, calc.start, calc.steps, calc.st.pub_seed,
                            setChainAddr(order(wrap(calc.addr), LITTLE_ENDIAN),
                                         calc.chain)).out

\* a verification walk that started inside the chain, made several rounds
\* up to hash address 14 and returned the chunk wots_pkgen makes
C24_Witness ==
    /\ calc.returned /\ calc.caller = "wots_pk_from_sig"
    /\ calc.start > 0 /\ calc.steps > 1
    /\ calc.hashAddrs[Len(calc.hashAddrs)] = WOTSW - 2
    /\ calc.st.i = WOTSW - 1
    /\ calc.st.out = wots_pkgen(calc.seed, calc.st.pub_seed, 0, calc.addr)[calc.chain + 1]

-----------------------------------------------------------------------------
(* chain_lengths and wotsChecksum on their own: calc holds a 32-byte       *)
(* message and a vector of 67 digits, then the lengths chain_lengths makes *)
(* of the message and the vector after wotsChecksum.                       *)

NLengthsMsg == 24
NDigits == 4

\* 32-byte messages: all zero, all 0xff, 0x12.., 0xf0.., 0x0f.., one byte
\* set, then varied bytes
LengthsMsgSample(k) ==
    CASE k = 1 -> Zeros(32)
      [] k = 2 -> Fill(32, 255)
      [] k = 3 -> Fill(32, 18)
      [] k = 4 -> Fill(32, 240)
      [] k = 5 -> Fill(32, 15)
      [] k = 6 -> ArrayOf([i \in 1..32 |-> IF i = 1 THEN 80 ELSE 0])
      [] k = 7 -> ArrayOf([i \in 1..32 |-> IF i = 32 THEN 1 ELSE 255])
      [] OTHER -> ArrayOf([i \in 1..32 |-> (k * 41 + i * i * 29 + ((i * k) % 7)) % 256])

\* digit vectors handed to wotsChecksum: all 15, all 0 with a 5 first, all
\* 0, then varied digits; the three last entries not yet written
DigitsSample(k) ==
    ArrayOf([i \in 1..WOTSLEN |->
                IF i > 64 THEN Undefined
                ELSE CASE k = 1 -> 15
                       [] k = 2 -> IF i = 1 THEN 5 ELSE 0
                       [] k = 3 -> 0
                       [] OTHER -> (k * 5 + i * 3) % 16])

InitLengths ==
    /\ \E k \in 1..NLengthsMsg, d \in 1..NDigits :
           calc = [msg |-> LengthsMsgSample(k), lengths |-> <<>>,
                   msgBaseW |-> DigitsSample(d), checked |-> <<>>]
    /\ wallet = NoWallet
    /\ last = Idle
    /\ before = Idle
    /\ mem = NoMem

\* WOTS.chain_lengths(msg, lengths) on a new Array(67)
ChainLengths ==
    /\ calc.lengths = <<>>
    /\ calc' = [calc EXCEPT !.lengths = chain_lengths(Raw(calc.msg), EmptyLengths)]
    /\ UNCHANGED <<wallet, last, before, mem>>

\* WOTS.wotsChecksum(msgBaseW, 64)
WotsChecksum ==
    /\ calc.checked = <<>>
    /\ calc' = [calc EXCEPT !.checked = wotsChecksum(calc.msgBaseW, 64)]
    /\ UNCHANGED <<wallet, last, before, mem>>

NextLengths == ChainLengths \/ WotsChecksum

SpecLengths == InitLengths /\ [][NextLengths]_vars

\* 15 - d[1] + ... + 15 - d[64]
Csum(d) == SumRange(ArrayOf([i \in 1..64 |-> 15 - d[i]]), 1, 64)

\* the three base-16 digits of csum, the most significant first
CsumDigits(csum) == <<(csum \div 256) % 16, (csum \div 16) % 16, csum % 16>>

\* C25: chain_lengths of a 32-byte message gives 67 entries in 0..15:
\* entries 0..63 the nibbles of the message, the high nibble of each byte
\* first, entries 64..66 the three base-16 digits of
\* csum = (15 - d[0]) + ... + (15 - d[63]), most significant first;
\* csum << 4 is below 2^16; wotsChecksum leaves entries 0..63 as they were
\* and gives the tail 0, 0, 0 for digits all 15
C25_ChainLengths ==
    /\ calc.lengths # <<>> =>
           /\ Len(calc.lengths) = WOTSLEN
           /\ \A i \in 1..WOTSLEN : calc.lengths[i] \in 0..15
           /\ \A j \in 1..32 :
                  /\ calc.lengths[2 * j - 1] = calc.msg[j] \div 16
                  /\ calc.lengths[2 * j] = calc.msg[j] % 16
           /\ SubSeq(calc.lengths, 65, 67) = CsumDigits(Csum(calc.lengths))
           /\ Csum(calc.lengths) * 16 < 65536
    /\ calc.checked # <<>> =>
           /\ Len(calc.checked) = WOTSLEN
           /\ SubSeq(calc.checked, 1, 64) = SubSeq(calc.msgBaseW, 1, 64)
           /\ SubSeq(calc.checked, 65, 67) = CsumDigits(Csum(calc.msgBaseW))
           /\ (\A i \in 1..64 : calc.msgBaseW[i] = 15) =>
                  SubSeq(calc.checked, 65, 67) = <<0, 0, 0>>

\* the all-zero message has the checksum 960 = 0x3c0, the digits 3, 12, 0,
\* and the vector of digits 15 got the tail 0, 0, 0
C25_Witness ==
    /\ calc.lengths # <<>> /\ calc.checked # <<>>
    /\ calc.msg = Zeros(32)
    /\ SubSeq(calc.lengths, 63, 67) = <<0, 0, 3, 12, 0>>
    /\ calc.msgBaseW[1] = 15 /\ calc.msgBaseW[64] = 15
    /\ SubSeq(calc.checked, 64, 67) = <<15, 0, 0, 0>>

-----------------------------------------------------------------------------
(* WOTSHash on the ByteBuffer byte by byte: the three setters and          *)
(* addrToBytes on a buffer that wraps a 32-byte address.                   *)

MaxHashOps == 3
NField == 3

\* field values: 0, 66, 0x12345678, then others
FieldSample(k) ==
    CASE k = 1 -> 0
      [] k = 2 -> 66
      [] k = 3 -> 305419896
      [] OTHER -> k * 16777259

\* addr.position(at); addr.putInt(value)
WOTSHash_setAt(m, at, value) ==
    The({IF p.err # "" THEN p ELSE ByteBuffer_putInt(p.mem, value) :
            p \in {ByteBuffer_position(m, at)}})

WOTSHash_setChainAddr(m, chain) == WOTSHash_setAt(m, 20, chain)

WOTSHash_setHashAddr(m, h) == WOTSHash_setAt(m, 24, h)

WOTSHash_setKeyAndMask(m, keyAndMask) == WOTSHash_setAt(m, 28, keyAndMask)

\* a round of addrToBytes that stores the four bytes in the order read
addrToBytes_round_plain(st) ==
    The({The({The({The({
        IF b3.err # "" THEN [st EXCEPT !.err = b3.err, !.mem = b3.mem]
        ELSE [st EXCEPT !.i = @ + 4, !.mem = b3.mem,
                        !.littleEndians = SetBytes(@, <<b0.val, b1.val, b2.val, b3.val>>, st.i)] :
        b3 \in {ByteBuffer_get_(b2.mem)}}) :
        b2 \in {ByteBuffer_get_(b1.mem)}}) :
        b1 \in {ByteBuffer_get_(b0.mem)}}) :
        b0 \in {ByteBuffer_get_(st.mem)}})

\* one round of the loop of addrToBytes over st = [i, mem, littleEndians, err]:
\* b0 .. b3 = addr.get_(); littleEndians[i .. i + 3] = b3, b2, b1, b0
addrToBytes_round(st) ==
    The({The({The({The({
        IF b3.err # "" THEN [st EXCEPT !.err = b3.err, !.mem = b3.mem]
        ELSE [st EXCEPT !.i = @ + 4, !.mem = b3.mem,
                        !.littleEndians = SetBytes(@, <<b3.val, b2.val, b1.val, b0.val>>, st.i)] :
        b3 \in {ByteBuffer_get_(b2.mem)}}) :
        b2 \in {ByteBuffer_get_(b1.mem)}}) :
        b1 \in {ByteBuffer_get_(b0.mem)}}) :
        b0 \in {ByteBuffer_get_(st.mem)}})

RECURSIVE addrToBytes_loop(_)
addrToBytes_loop(st) ==
    IF st.err # "" \/ st.i >= Len(st.littleEndians) THEN st
    ELSE addrToBytes_loop(addrToBytes_round(st))

\* WOTSHash.addrToBytes(addr): the reference of the array it returns
WOTSHash_addrToBytes(m) ==
    The({IF st.err # "" THEN Throw(st.mem, st.err)
         ELSE Ok(Uint8Array_new(st.mem, st.littleEndians, TRUE), Len(st.mem.arrays) + 1) :
            st \in {addrToBytes_loop([i |-> 0, mem |-> ByteBuffer_position(m, 0).mem,
                                      littleEndians |-> Zeros(Len(Buf(m))), err |-> ""])}})

\* the bytes addrToBytes returns for a buffer wrapping the array r
Reversed(m, r) ==
    The({IF x.err # "" THEN <<>> ELSE Bytes(x.mem, x.val) :
            x \in {WOTSHash_addrToBytes(ByteBuffer_wrap(m, r))}})

\* the caller's address, wrapped as the WOTS functions wrap it
\* (little-endian) or as allocate leaves a buffer (big-endian)
InitHash ==
    /\ calc = [chain |-> Undefined, hash |-> Undefined, keyAndMask |-> Undefined]
    /\ wallet = NoWallet
    /\ last = Idle
    /\ before = Idle
    /\ \E a \in 1..NAddr, o \in {LITTLE_ENDIAN, BIG_ENDIAN} :
           mem = ByteBuffer_order(
                     ByteBuffer_wrap([NoMem EXCEPT !.arrays =
                                          <<[bytes |-> BytesOf(AddrSample(a)), held |-> TRUE]>>],
                                     1),
                     o).mem

\* a call on the address buffer that returned or threw r
HashCall(op, in, r) ==
    /\ mem.ops < MaxHashOps
    /\ last' = [Idle EXCEPT !.op = op, !.in = in, !.out = r.val, !.err = r.err]
    /\ mem' = [r.mem EXCEPT !.ops = @ + 1]
    /\ UNCHANGED <<wallet, before>>

SetChainAddr ==
    \E k \in 1..NField :
        /\ HashCall("setChainAddr", <<FieldSample(k)>>,
                    WOTSHash_setChainAddr(mem, FieldSample(k)))
        /\ calc' = [calc EXCEPT !.chain = FieldSample(k)]

SetHashAddr ==
    \E k \in 1..NField :
        /\ HashCall("setHashAddr", <<FieldSample(k)>>,
                    WOTSHash_setHashAddr(mem, FieldSample(k)))
        /\ calc' = [calc EXCEPT !.hash = FieldSample(k)]

SetKeyAndMask ==
    \E k \in 0..1 :
        /\ HashCall("setKeyAndMask", <<k>>, WOTSHash_setKeyAndMask(mem, k))
        /\ calc' = [calc EXCEPT !.keyAndMask = k]

\* bytes = WOTSHash.addrToBytes(addr); in is the buffer before the call
AddrToBytes ==
    /\ HashCall("addrToBytes", <<Buf(mem)>>, WOTSHash_addrToBytes(mem))
    /\ UNCHANGED calc

NextHash == SetChainAddr \/ SetHashAddr \/ SetKeyAndMask \/ AddrToBytes

SpecHash == InitHash /\ [][NextHash]_vars

\* the four bytes of field value v at offset at of the bytes b, the most
\* significant first; a field never set is not looked at
BigEndianAt(b, at, v) ==
    v = Undefined \/ SubSeq(b, at + 1, at + 4) = IntBytes(v, BIG_ENDIAN)

\* C26: addrToBytes returns 32 bytes, output[4k + j] = addr[4k + 3 - j], and
\* leaves the bytes of the buffer as they were; the fields the setters wrote
\* in little-endian order are big-endian integers at 20, 24 and 28 of the
\* output; the reversal of the output is the buffer again
C26_ChunksReversed ==
    (last.op = "addrToBytes") =>
        /\ last.err = ""
        /\ Len(Bytes(mem, last.out)) = 32
        /\ \A k \in 0..7, j \in 0..3 :
               Bytes(mem, last.out)[4 * k + j + 1] = last.in[1][4 * k + 3 - j + 1]
        /\ Buf(mem) = last.in[1]
        /\ mem.bb.byteOrder = LITTLE_ENDIAN =>
               /\ BigEndianAt(Bytes(mem, last.out), 20, calc.chain)
               /\ BigEndianAt(Bytes(mem, last.out), 24, calc.hash)
               /\ BigEndianAt(Bytes(mem, last.out), 28, calc.keyAndMask)
        /\ Reversed(mem, last.out) = last.in[1]

\* chain 0x12345678 and keymask 1 written little-endian on the address
\* 0x78..: the output has 12 34 56 78 at 20 and 00 00 00 01 at 28, and is not
\* the buffer itself
C26_Witness ==
    /\ last.op = "addrToBytes" /\ last.err = ""
    /\ mem.bb.byteOrder = LITTLE_ENDIAN
    /\ calc.chain = 305419896 /\ calc.keyAndMask = 1
    /\ SubSeq(Buf(mem), 21, 24) = <<120, 86, 52, 18>>
    /\ SubSeq(Bytes(mem, last.out), 21, 24) = <<18, 52, 86, 120>>
    /\ SubSeq(Bytes(mem, last.out), 29, 32) = <<0, 0, 0, 1>>
    /\ SubSeq(Bytes(mem, last.out), 1, 20) = SubSeq(Buf(mem), 1, 20)
    /\ Bytes(mem, last.out) # Buf(mem)

-----------------------------------------------------------------------------
(* put(src, offset, length) against the arguments as given *)

\* the offset and length arguments of the put of this step, an argument not
\* given being 0 and the length of src
PutOffset == IF last'.in[2] = <<>> THEN 0 ELSE last'.in[2][1]
PutLength == IF last'.in[3] = <<>> THEN Len(Bytes(mem, last'.in[1])) ELSE last'.in[3][1]

\* offset >= 0, length >= 0, offset + length <= src.length, and length bytes
\* fit behind the cursor
PutFits ==
    /\ PutOffset >= 0 /\ PutLength >= 0
    /\ PutOffset + PutLength <= Len(Bytes(mem, last'.in[1]))
    /\ mem.bb.pos + PutLength <= Len(Buf(mem))

\* C27: put(src, offset, length) with a valid offset and length that fit
\* copies src[offset .. offset + length) to the cursor and moves the cursor
\* by length, a length of 0 writing nothing and leaving the cursor; put(src)
\* copies all of src
C27_PutCopiesLength ==
    [][(mem.bb.buf # 0 /\ last'.op = "putArray" /\ PutFits) =>
           /\ last'.err = ""
           /\ mem'.bb.pos = mem.bb.pos + PutLength
           /\ Buf(mem') = SetBytes(Buf(mem),
                                   SubSeq(Bytes(mem, last'.in[1]), PutOffset + 1,
                                          PutOffset + PutLength),
                                   mem.bb.pos)]_vars

-----------------------------------------------------------------------------
(* Where the random bytes come from.  A caller's callback writes a fixed   *)
(* byte, bytes.fill(b); the module's randomGenerator writes what            *)
(* Math.random gives: any of the sampled messages, any of the sampled       *)
(* fillers.  A call records which generator wrote the 2208-byte filler and   *)
(* which the self-check messages, "" for bytes never drawn.                  *)

NCallback == 2
NRandomSecret == 2

\* randomGen1 and randomGen2 of the wallet tests: 0x42, 0x24, then others
CallbackByte(k) ==
    CASE k = 1 -> 66
      [] k = 2 -> 36
      [] OTHER -> 36 + k

\* the tags of the calls: none, then 0x34..
RandomTagSample(k) == IF k = 1 THEN Null ELSE Raw(Fill(12, 52))

\* isValid(secret, address, random) calls
\* isValidWithComponents(secret, pk, pubSeed, rnd2, randomGenerator): inside
\* isValid the name randomGenerator is the function of the module
isValid_generator(random) == "Math.random"

\* generateRandomAddress_(tag, secret, randomGenerator) fills the address with
\* its parameter and hands the parameter to isValid, which hands on its own
generateRandomAddress__filler(randomGenerator) == randomGenerator

generateRandomAddress__messages(randomGenerator) == isValid_generator(randomGenerator)

\* generateRandomAddress(tag, secret) has no third parameter and calls
\* generateRandomAddress_(tag, secret, randomGenerator) with the module's
\* function; the v3 create calls it with its callback as a third argument
generateRandomAddress_generator(extra) == "Math.random"

\* generateAddress validates with isValid(private_seed, readyAddress,
\* randomGenerator), the module's function
generateAddress_messages == isValid_generator("Math.random")

\* the record of a call: r = [err, val], the generators that wrote the
\* filler and the messages, the messages drawn only when the address was
\* made ready
SourcedCall(op, in, rnd, r, filler, messages) ==
    [op |-> op, in |-> in, rnd |-> rnd, out |-> r.val, err |-> r.err,
     filler |-> filler,
     messages |-> IF r.err \in {"", "Invalid WOTS"} THEN messages ELSE ""]

\* the bytes a generator writes into n bytes: the callback its byte, the
\* module's function the bytes drawn from Math.random
Written(generator, b, drawn, n) ==
    IF generator = "callback" THEN Raw(Fill(n, b)) ELSE drawn

\* one call, then the same call again: in is the same, the bytes drawn from
\* Math.random are not
SourcedStep(call) ==
    /\ before.op = "idle"
    /\ last.op # "idle" => (call.op = last.op /\ call.in = last.in /\ call.rnd # last.rnd)
    /\ last' = call
    /\ before' = last
    /\ UNCHANGED <<calc, wallet, mem>>

\* WOTS.isValid(secret, address, callback) on the address made of the secret
IsValidRandom ==
    \E s \in 1..NRandomSecret, k \in 1..NCallback, d \in 1..NDraws, t \in 1..2 :
        SourcedStep(SourcedCall(
            "isValid", <<SecretSample(2 * s - 1), t, CallbackByte(k)>>, <<d>>,
            isValid(SecretSample(2 * s - 1),
                    generateAddress(RandomTagSample(t), SecretSample(2 * s - 1), "chained",
                                    DrawsSample(1)).val,
                    Written(isValid_generator("callback"), CallbackByte(k), DrawMsg(d), 32)),
            "", isValid_generator("callback")))

\* WOTS.generateRandomAddress_(tag, secret, callback)
RandomAddress ==
    \E s \in 1..NRandomSecret, k \in 1..NCallback, d \in 1..NDraws, t \in 1..2 :
        SourcedStep(SourcedCall(
            "generateRandomAddress_", <<RandomTagSample(t), SecretSample(2 * s - 1),
                                        CallbackByte(k)>>, <<d>>,
            generateRandomAddress_(
                RandomTagSample(t), SecretSample(2 * s - 1),
                Written(generateRandomAddress__filler("callback"), CallbackByte(k),
                        FillSample(d), 2208),
                ArrayOf([i \in 1..SELF_CHECK_ROUNDS |->
                            Written(generateRandomAddress__messages("callback"),
                                    CallbackByte(k), DrawsSample(d)[i], 32)])),
            generateRandomAddress__filler("callback"),
            generateRandomAddress__messages("callback")))

\* WOTSWallet.create(name, secret, v3tag, callback) of protocol/transaction.ts
CreateV3Random ==
    \E s \in 1..NRandomSecret, k \in 1..NCallback, d \in 1..NDraws, v \in 1..2 :
        SourcedStep(SourcedCall(
            "createV3", <<NameSample, SecretSample(2 * s - 1), V3TagSample(v),
                          CallbackByte(k)>>, <<d>>,
            WalletV3_create(
                NameSample, SecretSample(2 * s - 1), V3TagSample(v), TRUE,
                Written(generateRandomAddress__filler(generateRandomAddress_generator("callback")),
                        CallbackByte(k), FillSample(d), 2208),
                ArrayOf([i \in 1..SELF_CHECK_ROUNDS |->
                            Written(generateRandomAddress__messages(
                                        generateRandomAddress_generator("callback")),
                                    CallbackByte(k), DrawsSample(d)[i], 32)])),
            generateRandomAddress__filler(generateRandomAddress_generator("callback")),
            generateRandomAddress__messages(generateRandomAddress_generator("callback"))))

\* WOTS.generateAddress(tag, secret, componentsGenerator)
GenerateAddressRandom ==
    \E s \in 1..NRandomSecret, d \in 1..NDraws, t \in 1..2,
       g \in {"default", "chained"} :
        SourcedStep(SourcedCall(
            "generateAddress", <<RandomTagSample(t), SecretSample(2 * s - 1), g>>, <<d>>,
            generateAddress(RandomTagSample(t), SecretSample(2 * s - 1), g, DrawsSample(d)),
            "", generateAddress_messages))

NextRandom == IsValidRandom \/ RandomAddress \/ CreateV3Random \/ GenerateAddressRandom

SpecRandom == InitGen /\ [][NextRandom]_vars

\* C28: with a callback passed to isValid, generateRandomAddress_ or the v3
\* create, the filler and the self-check messages are written by the
\* callback and Math.random is never invoked, and the call made again gives
\* the same result; generateAddress made again gives the same result
C28_BytesFromCallback ==
    /\ last.op \in {"isValid", "generateRandomAddress_", "createV3"} =>
           /\ last.filler \in {"", "callback"}
           /\ last.messages \in {"", "callback"}
    /\ (last.op # "idle" /\ before.op = last.op) =>
           last.err = before.err /\ last.out = before.out

-----------------------------------------------------------------------------
(* The chain lengths of two messages: calc holds two 32-byte messages and  *)
(* the vector chain_lengths makes of each.                                 *)

InitPair ==
    /\ \E k \in 1..NLengthsMsg, j \in 1..NLengthsMsg :
           calc = [msg |-> LengthsMsgSample(k), lengths |-> <<>>,
                   other |-> LengthsMsgSample(j), otherLengths |-> <<>>]
    /\ wallet = NoWallet
    /\ last = Idle
    /\ before = Idle
    /\ mem = NoMem

\* WOTS.chain_lengths(m, lengths)
LengthsOfMsg ==
    /\ calc.lengths = <<>>
    /\ calc' = [calc EXCEPT !.lengths = chain_lengths(Raw(calc.msg), EmptyLengths)]
    /\ UNCHANGED <<wallet, last, before, mem>>

\* WOTS.chain_lengths(m', lengths)
LengthsOfOther ==
    /\ calc.otherLengths = <<>>
    /\ calc' = [calc EXCEPT !.otherLengths = chain_lengths(Raw(calc.other), EmptyLengths)]
    /\ UNCHANGED <<wallet, last, before, mem>>

NextPair == LengthsOfMsg \/ LengthsOfOther

SpecPair == InitPair /\ [][NextPair]_vars

\* C29: the chain-length vectors L and L' of two different 32-byte messages
\* are incomparable: L'[i] < L[i] for some chain i and L'[j] > L[j] for some
\* chain j
C29_Incomparable ==
    (calc.lengths # <<>> /\ calc.otherLengths # <<>> /\ calc.msg # calc.other) =>
        /\ \E i \in 1..WOTSLEN : calc.otherLengths[i] < calc.lengths[i]
        /\ \E j \in 1..WOTSLEN : calc.otherLengths[j] > calc.lengths[j]

\* the all-zero message and the message with a first byte 0x50: no message
\* digit of the second is below the first's, and a checksum digit is
C29_Witness ==
    /\ calc.lengths # <<>> /\ calc.otherLengths # <<>>
    /\ calc.msg = Zeros(32) /\ calc.other # calc.msg
    /\ \A i \in 1..64 : calc.otherLengths[i] >= calc.lengths[i]
    /\ \E i \in 65..WOTSLEN : calc.otherLengths[i] < calc.lengths[i]
    /\ \A i \in 65..WOTSLEN : calc.otherLengths[i] <= calc.lengths[i]

-----------------------------------------------------------------------------
(* The wallet of protocol/transaction.ts by reference.  Every array of     *)
(* mem.arrays is the sequence of its pieces: the 69 chunks of a wots       *)
(* address, one piece for a tag, a secret or a 40-byte address.  Array 1   *)
(* is the caller's secret.  The wallet's fields wots, addrTag and secret   *)
(* are references.  calc is the sequence of the byte arrays the wallet     *)
(* handed out, each a Uint8Array [array, byteOffset, length] on an array.  *)

MaxHanded == 3
NHandedSecret == 2

\* x.subarray(begin, end) of the Uint8Array that is the whole of array r
Uint8Array_subarray(r, begin, end) ==
    [array |-> r, byteOffset |-> begin, length |-> end - begin]

\* new Uint8Array(x), x.slice(..): [mem, val], val the whole of a new array
Uint8Array_copy(m, pieces, length) ==
    [mem |-> Uint8Array_new(m, pieces, TRUE),
     val |-> <<Uint8Array_subarray(Len(m.arrays) + 1, 0, length)>>]

\* the wallet with the contents of its arrays for its references
WalletV3Ref_deref(m, w) ==
    [w EXCEPT !.wots = Bytes(m, w.wots), !.addrTag = Bytes(m, w.addrTag)[1],
              !.secret = Bytes(m, w.secret)[1]]

\* the end of create on references: the length test on the tag, then the
\* constructor, which keeps the references as they are passed
WalletV3Ref_tagged(m, name, wots, addrTag, secret) ==
    The({IF r.err # "" THEN r
         ELSE [r EXCEPT !.val.wots = wots, !.val.addrTag = addrTag, !.val.secret = secret] :
            r \in {WalletV3_tagged(name, Bytes(m, wots), Bytes(m, addrTag)[1],
                                   Bytes(m, secret)[1])}})

\* create from the length test on sourcePK on, for the sourcePK that
\* generateAddress returns for the secret and no tag: sourcePK, the tag
\* of its address and private_seed are new arrays
WalletV3Ref_created(m, name, secret, draws) ==
    The({IF sourcePK.err # "" THEN [err |-> sourcePK.err, val |-> Null, mem |-> m]
         ELSE IF ArrLen(sourcePK.val) # 2208
         THEN [err |-> "Invalid sourcePK length", val |-> Null, mem |-> m]
         ELSE The({The({[err |-> w.err, val |-> w.val, mem |-> n] :
                          w \in {WalletV3Ref_tagged(n, name, Len(m.arrays) + 1,
                                                    Len(m.arrays) + 2, Len(m.arrays) + 3)}}) :
                     n \in {Uint8Array_new(
                               Uint8Array_new(
                                   Uint8Array_new(m, sourcePK.val, FALSE),
                                   <<WotsAddress_getTag(
                                         wotsAddressFromBytes(
                                             SubSeq(sourcePK.val, 1, WOTSLEN)))>>, FALSE),
                               <<componentsGenerator(Bytes(m, secret)[1]).private_seed>>,
                               FALSE)}}) :
            sourcePK \in {generateAddress(Null, Bytes(m, secret)[1], "default", draws)}})

\* getWotsPubSeed, getWotsAdrs, getWotsTag: subarrays of this.wots
WalletV3Ref_getWotsPubSeed(w) ==
    <<Uint8Array_subarray(w.wots, WOTSSIGBYTES, WOTSSIGBYTES + 32)>>
WalletV3Ref_getWotsAdrs(w) ==
    <<Uint8Array_subarray(w.wots, WOTSSIGBYTES + 32, WOTSSIGBYTES + 64)>>
WalletV3Ref_getWotsTag(w) ==
    <<Uint8Array_subarray(w.wots, WOTSSIGBYTES + 64 - 12, WOTSSIGBYTES + 64)>>

\* toJSON(): the fields wots, addrTag and secret of the object it returns
WalletV3Ref_toJSON(w) ==
    <<Uint8Array_subarray(w.wots, 0, 2208), Uint8Array_subarray(w.addrTag, 0, 20),
      Uint8Array_subarray(w.secret, 0, 32)>>

\* x[0] ^= 1 on a Uint8Array x
Uint8Array_write(m, x) ==
    [m EXCEPT !.arrays[x.array].bytes[(x.byteOffset \div 32) + 1] =
                  <<"flip", @, (x.byteOffset % 32) * 8>>]

\* what a caller sees of the wallet: the getters, a signature, its check
ObservedV3(m, w) ==
    <<WalletV3_getWots(WalletV3Ref_deref(m, w)), WalletV3_getWotsHex(w),
      WalletV3_getWotsPk(WalletV3Ref_deref(m, w)),
      WalletV3_getWotsPubSeed(WalletV3Ref_deref(m, w)),
      WalletV3_getWotsAdrs(WalletV3Ref_deref(m, w)),
      Slice(WalletV3_getWotsAdrs(WalletV3Ref_deref(m, w)), 20, 32),
      Slice(WotsAddress_bytes(w.mochimoAddr), 0, 40),
      WalletV3_getAddrTag(WalletV3Ref_deref(m, w)),
      WalletV3_getAddrTagHex(w), WalletV3_getSecret(WalletV3Ref_deref(m, w)),
      WalletV3_sign(WalletV3Ref_deref(m, w), MsgSample(1)),
      WalletV3_verify(WalletV3Ref_deref(m, w), MsgSample(1),
                      WalletV3_sign(WalletV3Ref_deref(m, w), MsgSample(1)).val)>>

InitHanded ==
    /\ calc = <<>>
    /\ wallet = NoWallet
    /\ last = Idle
    /\ before = Idle
    /\ \E s \in 1..NHandedSecret :
           mem = [NoMem EXCEPT !.arrays = <<[bytes |-> <<SecretSample(s)>>, held |-> TRUE]>>]

\* WOTSWallet.create(name, secret): it throws and leaves no wallet
CreateHanded ==
    /\ last.op = "idle"
    /\ \E r \in {WalletV3_create(NameSample, Bytes(mem, 1)[1], Null, FALSE, 1,
                                   DrawsSample(1))} :
           /\ r.err # ""
           /\ last' = [Idle EXCEPT !.op = "create", !.in = <<NameSample, 1>>, !.err = r.err]
    /\ UNCHANGED <<calc, wallet, before, mem>>

\* the statements of create after generateAddress, the constructor included
CreatedHanded ==
    /\ last.op \in {"idle", "create"}
    /\ \E r \in {WalletV3Ref_created(mem, NameSample, 1, DrawsSample(1))} :
           /\ last' = [Idle EXCEPT !.op = "new", !.in = <<NameSample, 1>>, !.err = r.err]
           /\ wallet' = r.val
           /\ mem' = r.mem
    /\ UNCHANGED <<calc, before>>

\* a call on the wallet the constructor made
IsHanded == last.op \notin {"idle", "create"} /\ last.err = "" /\ mem.ops < MaxHanded

\* the call op returned the arrays r.val and left the memory r.mem
Hands(op, r) ==
    /\ last' = [Idle EXCEPT !.op = op, !.out = <<"Uint8Array">> \o r.val]
    /\ calc' = calc \o r.val
    /\ mem' = [r.mem EXCEPT !.ops = @ + 1]
    /\ UNCHANGED <<wallet, before>>

\* getWots(): new Uint8Array(this.wots)
GetWots == IsHanded /\ Hands("getWots", Uint8Array_copy(mem, Bytes(mem, wallet.wots), 2208))

\* getWotsPk(): new Uint8Array(this.wots.slice(0, 2144))
GetWotsPk ==
    /\ IsHanded
    /\ Hands("getWotsPk",
             Uint8Array_copy(mem, SubSeq(Bytes(mem, wallet.wots), 1, WOTSLEN), 2144))

GetWotsPubSeed ==
    IsHanded /\ Hands("getWotsPubSeed", [mem |-> mem, val |-> WalletV3Ref_getWotsPubSeed(wallet)])

GetWotsAdrs ==
    IsHanded /\ Hands("getWotsAdrs", [mem |-> mem, val |-> WalletV3Ref_getWotsAdrs(wallet)])

GetWotsTag ==
    IsHanded /\ Hands("getWotsTag", [mem |-> mem, val |-> WalletV3Ref_getWotsTag(wallet)])

\* getAddress(): this.mochimoAddr.bytes().slice(0, 40)
GetAddress ==
    /\ IsHanded
    /\ Hands("getAddress",
             Uint8Array_copy(mem, <<Slice(WotsAddress_bytes(wallet.mochimoAddr), 0, 40)>>, 40))

\* getAddrTag(): new Uint8Array(this.addrTag)
GetAddrTag ==
    IsHanded /\ Hands("getAddrTag", Uint8Array_copy(mem, Bytes(mem, wallet.addrTag), 20))

\* getSecret(): new Uint8Array(this.secret)
GetSecret ==
    IsHanded /\ Hands("getSecret", Uint8Array_copy(mem, Bytes(mem, wallet.secret), 32))

ToJSON == IsHanded /\ Hands("toJSON", [mem |-> mem, val |-> WalletV3Ref_toJSON(wallet)])

\* the caller inverts the lowest bit of the first byte of an array it got
WriteHanded ==
    /\ IsHanded
    /\ \E x \in 1..Len(calc) :
           /\ last' = [Idle EXCEPT !.op = "write", !.in = <<calc[x]>>]
           /\ mem' = [Uint8Array_write(mem, calc[x]) EXCEPT !.ops = @ + 1]
    /\ UNCHANGED <<calc, wallet, before>>

\* the getters, sign and verify
ObserveHanded ==
    /\ IsHanded
    /\ last' = [Idle EXCEPT !.op = "observe", !.out = ObservedV3(mem, wallet)]
    /\ mem' = [mem EXCEPT !.ops = @ + 1]
    /\ UNCHANGED <<calc, wallet, before>>

NextHanded ==
    \/ CreateHanded \/ CreatedHanded \/ GetWots \/ GetWotsPk \/ GetWotsPubSeed
    \/ GetWotsAdrs \/ GetWotsTag \/ GetAddress \/ GetAddrTag \/ GetSecret \/ ToJSON
    \/ WriteHanded \/ ObserveHanded

SpecHanded == InitHanded /\ [][NextHanded]_vars

====
